---- MODULE Spec2Model ----
(***************************************************************************)
(* Chronos service (SAUC-MASTER-FINAL/chronos/service.py): the hash-chain  *)
(* ledger (BlockchainOrchestrator), the temporal coordinator               *)
(* (TemporalCoordinator), the DLT helper (DLTOperations) and the facade    *)
(* (ChronosService), as one state machine.                                 *)
(*                                                                         *)
(* Strings are sequences of tokens: "" is <<>>, a SHA-256 hex digest is    *)
(* the one-token string <<[sha256 |-> preimage]>> (the digest is taken to  *)
(* be collision free and never equal to 64 zeros), and string              *)
(* concatenation is \o.  A dict is the sequence of its <<key, value>>      *)
(* pairs in insertion order.  The service runs on one asyncio event loop:  *)
(* a coroutine runs without interruption from one suspension point to the  *)
(* next, so each action below is one such uninterrupted run.               *)
(***************************************************************************)
EXTENDS Integers, Sequences, FiniteSets, TLC

VARIABLES
    txs,                 \* the BlockchainTransaction objects created so far (index = object identity)
    chain,               \* BlockchainOrchestrator.chain: references (indices into txs)
    events,              \* TemporalCoordinator.events
    sequence_counter,    \* TemporalCoordinator.sequence_counter
    coordination_locks,  \* TemporalCoordinator.coordination_locks: dict agent -> bool
    calls,               \* the coordinate_operation / coordinate_consolidation_phase coroutines
    proofs,              \* ProofEngine.proofs
    ctr_integration_enabled, \* DLTOperations.ctr_integration_enabled
    clock,               \* the wall clock read by time.time() / datetime.now()
    last                 \* the last step of a call: its name, its argument, the value it
                         \* returned and how it ended ("suspended": it has not returned yet)

vars == <<txs, chain, events, sequence_counter, coordination_locks, calls, proofs,
          ctr_integration_enabled, clock, last>>

----------------------------------------------------------------------------
(* Bounds of the model *)

MaxTx == 3       \* transaction objects ever created
MaxChain == 4    \* length of the chain
MaxEvents == 6   \* length of the event list
MaxCalls == 2    \* coroutines of the coordinator alive at once
MaxClock == 1    \* readings of the wall clock: 0..MaxClock
MaxCorrupt == 2  \* fields of transactions overwritten from outside
MaxProofs == 2   \* length of the proof list
MaxTimeline == 3 \* length of an event list whose sequence numbers are overwritten

Agents == {"A", "B", "C"}
Calls == 1..MaxCalls

----------------------------------------------------------------------------
(* JSON and hashing *)

\* alphabetical rank of the dict keys in use (json.dumps(..., sort_keys=True))
KeyRank(k) ==
    CASE k = "a" -> 1
      [] k = "agent" -> 2
      [] k = "b" -> 3
      [] k = "contracts" -> 4
      [] k = "event_type" -> 5
      [] k = "files_affected" -> 6
      [] k = "integration_status" -> 7
      [] k = "manifest_hash" -> 8
      [] k = "message" -> 9
      [] k = "metadata" -> 10
      [] k = "operation" -> 11
      [] k = "results" -> 12
      [] k = "verified_at" -> 13
      [] k = "version" -> 14

\* the pairs of dict d in ascending key order (the keys of a dict are distinct)
SortKeys(d) ==
    LET n == Len(d)
        pos(i) == Cardinality({j \in 1..n : KeyRank(d[j][1]) < KeyRank(d[i][1])}) + 1
    IN  [r \in 1..n |-> d[CHOOSE i \in 1..n : pos(i) = r]]

\* json.dumps(data): the pairs in insertion order
json_dumps(data) == <<[json |-> data]>>

\* mutant: sort_keys is left out
json_dumps_sorted_asis(data) == <<[json |-> data]>>

\* json.dumps(data, sort_keys=True)
json_dumps_sorted(data) == <<[json |-> SortKeys(data)]>>

\* BlockchainOrchestrator.genesis_hash: 64 characters '0'
genesis_hash == <<[zeros |-> 64]>>

calculate_hash(data) == <<[sha256 |-> data]>>

\* one level of the Merkle reduction: pairs are concatenated and hashed, the
\* last element of an odd level is paired with itself
MerkleLevel(hashes) ==
    [k \in 1..((Len(hashes) + 1) \div 2) |->
        IF 2 * k <= Len(hashes)
        THEN calculate_hash(hashes[2 * k - 1] \o hashes[2 * k])
        ELSE calculate_hash(hashes[2 * k - 1] \o hashes[2 * k - 1])]

RECURSIVE MerkleReduce(_)
MerkleReduce(hashes) ==
    IF Len(hashes) > 1 THEN MerkleReduce(MerkleLevel(hashes)) ELSE hashes

calculate_merkle_root(transactions) ==
    IF transactions = <<>>
    THEN genesis_hash
    ELSE LET hashes == MerkleReduce([i \in 1..Len(transactions) |->
                                        calculate_hash(transactions[i])])
         IN  IF hashes # <<>> THEN hashes[1] ELSE genesis_hash

----------------------------------------------------------------------------
(* BlockchainOrchestrator *)

\* data_hash of the last element of chain ch (objects in heap), or genesis_hash
TailHash(heap, ch) ==
    IF ch # <<>> THEN heap[ch[Len(ch)]].data_hash ELSE genesis_hash

\* mutant: previous_hash is always the genesis sentinel
create_transaction_unlinked(heap, ch, operation, data, now) ==
    [ tx_id         |-> calculate_hash(<<operation, now, json_dumps(data)>>),
      timestamp     |-> <<[iso |-> now]>>,
      operation     |-> operation,
      data_hash     |-> calculate_hash(json_dumps_sorted(data)),
      previous_hash |-> genesis_hash,
      merkle_root   |-> calculate_merkle_root(<<json_dumps(data)>>),
      status        |-> "pending" ]

create_transaction(heap, ch, operation, data, now) ==
    [ tx_id         |-> calculate_hash(<<operation, now, json_dumps(data)>>),
      timestamp     |-> <<[iso |-> now]>>,
      operation     |-> operation,
      data_hash     |-> calculate_hash(json_dumps_sorted(data)),
      previous_hash |-> TailHash(heap, ch),
      merkle_root   |-> calculate_merkle_root(<<json_dumps(data)>>),
      status        |-> "pending" ]

\* mutant: the previous-hash check is left out
validate_transaction_unlinked(heap, ch, transaction) ==
    /\ transaction.tx_id # <<>>
    /\ transaction.timestamp # <<>>

\* mutant: the tx_id check is left out
validate_transaction_anyid(heap, ch, transaction) ==
    /\ transaction.timestamp # <<>>
    /\ transaction.previous_hash = TailHash(heap, ch)

validate_transaction(heap, ch, transaction) ==
    /\ transaction.tx_id # <<>>
    /\ transaction.timestamp # <<>>
    /\ transaction.previous_hash = TailHash(heap, ch)

\* mutant: a rejection also drops the last element of the chain
add_transaction_truncate(heap, ch, h) ==
    IF validate_transaction(heap, ch, heap[h])
    THEN [ txs   |-> [heap EXCEPT ![h].status = "confirmed"],
           chain |-> Append(ch, h),
           ret   |-> TRUE ]
    ELSE [ txs   |-> [heap EXCEPT ![h].status = "rejected"],
           chain |-> SubSeq(ch, 1, Len(ch) - 1),
           ret   |-> FALSE ]

\* add_transaction on object h: the heap and chain afterwards, and the value returned
add_transaction(heap, ch, h) ==
    IF validate_transaction(heap, ch, heap[h])
    THEN [ txs   |-> [heap EXCEPT ![h].status = "confirmed"],
           chain |-> Append(ch, h),
           ret   |-> TRUE ]
    ELSE [ txs   |-> [heap EXCEPT ![h].status = "rejected"],
           chain |-> ch,
           ret   |-> FALSE ]

\* mutant: latest_hash is taken from the first element of the chain
get_manifest_head(heap, ch, now) ==
    << <<"chain_length", Len(ch)>>,
       <<"latest_hash", IF ch # <<>> THEN heap[ch[1]].data_hash ELSE genesis_hash>>,
       <<"total_transactions", Len(ch)>>,
       <<"genesis_hash", genesis_hash>>,
       <<"last_updated", <<[iso |-> now]>> >> >>

get_manifest(heap, ch, now) ==
    << <<"chain_length", Len(ch)>>,
       <<"latest_hash", TailHash(heap, ch)>>,
       <<"total_transactions", Len(ch)>>,
       <<"genesis_hash", genesis_hash>>,
       <<"last_updated", <<[iso |-> now]>> >> >>

----------------------------------------------------------------------------
(* TemporalCoordinator *)

\* mutant: the event takes the counter's value from before the increment
register_event_stale(evs, counter, event_type, agent, data, now) ==
    [ events |-> Append(evs, [ event_id   |-> <<"event", now, counter>>,
                               timestamp  |-> <<[iso |-> now]>>,
                               event_type |-> event_type,
                               agent      |-> agent,
                               data       |-> data,
                               sequence   |-> counter ]),
      sequence_counter |-> counter + 1,
      ret |-> <<"event", now, counter>> ]

\* register_event: the event list and counter afterwards, and the event id returned
register_event(evs, counter, event_type, agent, data, now) ==
    LET event_id == <<"event", now, counter>>
        event == [ event_id   |-> event_id,
                   timestamp  |-> <<[iso |-> now]>>,
                   event_type |-> event_type,
                   agent      |-> agent,
                   data       |-> data,
                   sequence   |-> counter + 1 ]
    IN  [ events |-> Append(evs, event), sequence_counter |-> counter + 1, ret |-> event_id ]

\* self.coordination_locks.get(agent, False)
IsLocked(locks, agent) == agent \in DOMAIN locks /\ locks[agent]

\* mutant: the call is turned away only when every requested agent is locked
AnyLocked_all(locks, agents) == \A agent \in agents : IsLocked(locks, agent)

\* mutant: the check is left out
AnyLocked_never(locks, agents) == FALSE

\* the first loop of coordinate_operation: some requested agent is locked
AnyLocked(locks, agents) == \E agent \in agents : IsLocked(locks, agent)

\* for agent in agents: self.coordination_locks[agent] = value
SetLocks(locks, agents, value) ==
    [agent \in DOMAIN locks \cup agents |-> IF agent \in agents THEN value ELSE locks[agent]]

LockAll(locks, agents) == SetLocks(locks, agents, TRUE)

\* mutant: the release loop runs over every agent of the lock table
ReleaseAll_table(locks, agents) ==
    [agent \in DOMAIN locks \cup agents |-> FALSE]

ReleaseAll(locks, agents) == SetLocks(locks, agents, FALSE)

coordination_id(operation, now) == <<"coord", operation, now>>

\* insertion of event e into the sequence s sorted by .sequence, after its equals
RECURSIVE InsertBySequence(_, _)
InsertBySequence(e, s) ==
    IF s = <<>> THEN <<e>>
    ELSE IF e.sequence < s[1].sequence THEN <<e>> \o s
    ELSE <<s[1]>> \o InsertBySequence(e, Tail(s))

\* sorted(evs, key=lambda x: x.sequence): stable
RECURSIVE SortBySequence(_)
SortBySequence(evs) ==
    IF evs = <<>> THEN <<>>
    ELSE InsertBySequence(evs[Len(evs)], SortBySequence(SubSeq(evs, 1, Len(evs) - 1)))

\* [event for event in evs if event.agent == agent]
RECURSIVE EventsOf(_, _)
EventsOf(evs, agent) ==
    IF evs = <<>> THEN <<>>
    ELSE (IF evs[1].agent = agent THEN <<evs[1]>> ELSE <<>>) \o EventsOf(Tail(evs), agent)

\* NoAgent stands for None, the default of get_event_timeline's parameter
NoAgent == "None"

\* get_event_timeline(agent): `if agent:` is false for None and for the empty
\* string, and both get the whole list sorted
get_event_timeline(evs, agent) ==
    IF agent \notin {NoAgent, ""} THEN EventsOf(evs, agent) ELSE SortBySequence(evs)

\* mutant: a call that is turned away leaves a coordination_rejected event
coordinate_begin_logged(locks, evs, counter, operation, agents, now) ==
    IF AnyLocked(locks, agents)
    THEN LET r == register_event(evs, counter, "coordination_rejected", "chronos",
                      [ coordination_id |-> coordination_id(operation, now),
                        operation |-> operation, agents |-> agents ], now)
         IN  [ locks |-> locks, events |-> r.events,
               sequence_counter |-> r.sequence_counter,
               suspended |-> FALSE, ret |-> FALSE ]
    ELSE LET r == register_event(evs, counter, "coordination_start", "chronos",
                      [ coordination_id |-> coordination_id(operation, now),
                        operation |-> operation, agents |-> agents ], now)
         IN  [ locks |-> LockAll(locks, agents), events |-> r.events,
               sequence_counter |-> r.sequence_counter,
               suspended |-> TRUE, ret |-> FALSE ]

\* mutant: checks and locks in one loop, so a call that is turned away has
\* already locked the free agents of its list
coordinate_begin_partial(locks, evs, counter, operation, agents, now) ==
    IF AnyLocked(locks, agents)
    THEN [ locks |-> LockAll(locks, agents), events |-> evs, sequence_counter |-> counter,
           suspended |-> FALSE, ret |-> FALSE ]
    ELSE LET r == register_event(evs, counter, "coordination_start", "chronos",
                      [ coordination_id |-> coordination_id(operation, now),
                        operation |-> operation, agents |-> agents ], now)
         IN  [ locks |-> LockAll(locks, agents), events |-> r.events,
               sequence_counter |-> r.sequence_counter,
               suspended |-> TRUE, ret |-> FALSE ]

\* coordinate_operation from its entry to its first suspension (the awaited
\* sleep) or, when an agent is locked, to its return
coordinate_begin(locks, evs, counter, operation, agents, now) ==
    IF AnyLocked(locks, agents)
    THEN [ locks |-> locks, events |-> evs, sequence_counter |-> counter,
           suspended |-> FALSE, ret |-> FALSE ]
    ELSE LET r == register_event(evs, counter, "coordination_start", "chronos",
                      [ coordination_id |-> coordination_id(operation, now),
                        operation |-> operation, agents |-> agents ], now)
         IN  [ locks |-> LockAll(locks, agents), events |-> r.events,
               sequence_counter |-> r.sequence_counter,
               suspended |-> TRUE, ret |-> FALSE ]

\* mutant: the call returns False after it has completed
coordinate_finish_false(locks, evs, counter, coord_id, agents, now) ==
    LET r == register_event(evs, counter, "coordination_complete", "chronos",
                 [ coordination_id |-> coord_id, status |-> "success" ], now)
    IN  [ locks |-> ReleaseAll(locks, agents), events |-> r.events,
          sequence_counter |-> r.sequence_counter, ret |-> FALSE ]

\* mutant: coordination_complete is not registered
coordinate_finish_quiet(locks, evs, counter, coord_id, agents, now) ==
    [ locks |-> ReleaseAll(locks, agents), events |-> evs,
      sequence_counter |-> counter, ret |-> TRUE ]

\* mutant: the locks are not released before coordination_complete
coordinate_finish_keep(locks, evs, counter, coord_id, agents, now) ==
    LET r == register_event(evs, counter, "coordination_complete", "chronos",
                 [ coordination_id |-> coord_id, status |-> "success" ], now)
    IN  [ locks |-> locks, events |-> r.events,
          sequence_counter |-> r.sequence_counter, ret |-> TRUE ]

\* coordinate_operation from the end of the sleep to its return
coordinate_finish(locks, evs, counter, coord_id, agents, now) ==
    LET r == register_event(evs, counter, "coordination_complete", "chronos",
                 [ coordination_id |-> coord_id, status |-> "success" ], now)
    IN  [ locks |-> ReleaseAll(locks, agents), events |-> r.events,
          sequence_counter |-> r.sequence_counter, ret |-> TRUE ]

\* mutant: the except clause does not release the locks
coordinate_error_keep(locks, evs, counter, agents) ==
    [ locks |-> locks, events |-> evs, sequence_counter |-> counter, ret |-> FALSE ]

\* coordinate_operation when the awaited step raises: the except clause
coordinate_error(locks, evs, counter, agents) ==
    [ locks |-> ReleaseAll(locks, agents), events |-> evs,
      sequence_counter |-> counter, ret |-> FALSE ]

----------------------------------------------------------------------------
(* ProofEngine *)

\* the bytes read from the files of the list that exist on disk, joined in
\* list order (a file that is missing or cannot be read is skipped)
RECURSIVE ReadFiles(_, _)
ReadFiles(files, disk) ==
    IF files = <<>> THEN <<>>
    ELSE (IF disk[files[1]].exists THEN disk[files[1]].bytes ELSE <<>>)
             \o ReadFiles(Tail(files), disk)

\* ProofEngine.generate_consolidation_proof: the proof list afterwards and the
\* proof returned
generate_consolidation_proof(prfs, operation, files, disk, now) ==
    LET proof == [ proof_id       |-> calculate_hash(<<operation, now>>),
                   operation      |-> operation,
                   files_affected |-> files,
                   before_hash    |-> calculate_hash(ReadFiles(files, disk)),
                   after_hash     |-> <<>>,
                   timestamp      |-> <<[iso |-> now]>>,
                   verified       |-> FALSE ]
    IN  [ proofs |-> Append(prfs, proof), ret |-> proof ]

\* next((p for p in self.proofs if p.proof_id == proof_id), None): its index, 0 for None
FindProof(prfs, proof_id) ==
    IF \E i \in 1..Len(prfs) : prfs[i].proof_id = proof_id
    THEN CHOOSE i \in 1..Len(prfs) :
            /\ prfs[i].proof_id = proof_id
            /\ \A j \in 1..(i - 1) : prfs[j].proof_id # proof_id
    ELSE 0

\* mutant: every proof with the id is finalized, not only the first
finalize_proof_all(prfs, proof_id, files, disk) ==
    IF FindProof(prfs, proof_id) = 0 THEN [ proofs |-> prfs, ret |-> FALSE ]
    ELSE [ proofs |-> [i \in 1..Len(prfs) |->
                          IF prfs[i].proof_id = proof_id
                          THEN [prfs[i] EXCEPT !.after_hash = calculate_hash(ReadFiles(files, disk)),
                                               !.verified = TRUE]
                          ELSE prfs[i]],
           ret |-> TRUE ]

\* mutant: a proof is marked finalized only when its content hash has changed
finalize_proof_changed(prfs, proof_id, files, disk) ==
    LET i == FindProof(prfs, proof_id)
        after_hash == calculate_hash(ReadFiles(files, disk))
    IN  IF i = 0 THEN [ proofs |-> prfs, ret |-> FALSE ]
        ELSE [ proofs |-> [prfs EXCEPT ![i].after_hash = after_hash,
                                       ![i].verified = (after_hash # prfs[i].before_hash)],
               ret |-> TRUE ]

\* ProofEngine.finalize_proof: the proof list afterwards and the value returned
finalize_proof(prfs, proof_id, files, disk) ==
    LET i == FindProof(prfs, proof_id)
    IN  IF i = 0 THEN [ proofs |-> prfs, ret |-> FALSE ]
        ELSE [ proofs |-> [prfs EXCEPT ![i].after_hash = calculate_hash(ReadFiles(files, disk)),
                                       ![i].verified = TRUE],
               ret |-> TRUE ]

verify_integrity(prfs, proof_id) ==
    LET i == FindProof(prfs, proof_id)
    IN  IF i = 0 THEN FALSE
        ELSE /\ prfs[i].verified
             /\ prfs[i].before_hash # prfs[i].after_hash
             /\ Len(prfs[i].files_affected) > 0

----------------------------------------------------------------------------
(* DLTOperations *)

\* dict.get(key, default) on a dict given as a record
DictGet(d, key, default) == IF key \in DOMAIN d THEN d[key] ELSE default

\* a metadata dict holding a value json.dumps cannot encode (it raises TypeError)
NotJSON == << <<"handle", <<"<object>">> >> >>

\* a files list holding a value json.dumps cannot encode (a pathlib.Path)
NotJSONFiles == <<"<Path f1>">>

\* json.dumps(data) returns for the transaction data built from event_data
Serializable(event_data) ==
    /\ DictGet(event_data, "metadata", <<>>) # NotJSON
    /\ DictGet(event_data, "files", <<>>) # NotJSONFiles

\* mutant: the id is returned without adding the transaction
record_consolidation_event_unadded(heap, ch, event_data, now) ==
    LET tx == create_transaction(heap, ch, "consolidation_event",
                  << <<"event_type", DictGet(event_data, "type", "unknown")>> >>, now)
    IN  [ txs |-> Append(heap, tx), chain |-> ch, ret |-> tx.tx_id ]

\* record_consolidation_event: heap and chain afterwards, and the id returned
\* ("" from the except clause when create_transaction raises)
record_consolidation_event(heap, ch, event_data, now) ==
    LET tx == create_transaction(heap, ch, "consolidation_event",
                  << <<"event_type", DictGet(event_data, "type", "unknown")>>,
                     <<"files_affected", DictGet(event_data, "files", <<>>)>>,
                     <<"operation", DictGet(event_data, "operation", "")>>,
                     <<"agent", DictGet(event_data, "agent", "unknown")>>,
                     <<"metadata", DictGet(event_data, "metadata", <<>>)>> >>, now)
        heap1 == Append(heap, tx)
        r == add_transaction(heap1, ch, Len(heap1))
    IN  IF Serializable(event_data)
        THEN [ txs |-> r.txs, chain |-> r.chain,
               ret |-> IF r.ret THEN tx.tx_id ELSE <<>> ]
        ELSE [ txs |-> heap, chain |-> ch, ret |-> <<>> ]

\* the log line of a successful walk
ChainVerified == <<"Consolidation chain verified successfully">>

\* mutant: the walk does not stop at the first break, the last one is reported
ChainWalk_last(heap, ch, i) ==
    LET breaks == { k \in 1..Len(ch) :
                      heap[ch[k]].previous_hash #
                          (IF k = 1 THEN genesis_hash ELSE heap[ch[k - 1]].data_hash) }
        top == CHOOSE k \in breaks : \A j \in breaks : j <= k
    IN  IF breaks = {} THEN [ ret |-> TRUE, log |-> ChainVerified ]
        ELSE IF top = 1 THEN [ ret |-> FALSE, log |-> <<"Genesis transaction invalid">> ]
        ELSE [ ret |-> FALSE, log |-> <<"Hash chain broken at transaction", top - 1>> ]

\* the loop of verify_consolidation_chain from the i-th element on (the source
\* counts from 0): the value returned and the line logged on the way out
RECURSIVE ChainWalk(_, _, _)
ChainWalk(heap, ch, i) ==
    IF i > Len(ch)
    THEN [ ret |-> TRUE, log |-> ChainVerified ]
    ELSE IF i = 1
    THEN IF heap[ch[i]].previous_hash # genesis_hash
         THEN [ ret |-> FALSE, log |-> <<"Genesis transaction invalid">> ]
         ELSE ChainWalk(heap, ch, i + 1)
    ELSE IF heap[ch[i]].previous_hash # heap[ch[i - 1]].data_hash
         THEN [ ret |-> FALSE, log |-> <<"Hash chain broken at transaction", i - 1>> ]
         ELSE ChainWalk(heap, ch, i + 1)

\* verify_consolidation_chain with its log line (an empty chain logs nothing)
verify_consolidation_chain_logged(heap, ch) ==
    IF Len(ch) = 0 THEN [ ret |-> TRUE, log |-> <<>> ] ELSE ChainWalk(heap, ch, 1)

\* verify_consolidation_chain: the value returned
verify_consolidation_chain(heap, ch) == verify_consolidation_chain_logged(heap, ch).ret

----------------------------------------------------------------------------
(* ChronosService *)

\* mutant: the events are checked in list order, without sorting by sequence
verify_temporal_consistency_unsorted(evs) ==
    \A i \in 1..Len(evs) : evs[i].sequence = i

verify_temporal_consistency(evs) ==
    LET timeline == get_event_timeline(evs, NoAgent)
    IN  \A i \in 1..Len(timeline) : timeline[i].sequence = i

verify_all_proofs(prfs) ==
    \A i \in 1..Len(prfs) : verify_integrity(prfs, prfs[i].proof_id)

\* the value of key in a dict given as a sequence of pairs
Lookup(d, key) == d[CHOOSE i \in 1..Len(d) : d[i][1] = key][2]

verify_manifest_accuracy(heap, ch, now) ==
    LET current_manifest == get_manifest(heap, ch, now)
    IN  /\ Lookup(current_manifest, "chain_length") = Len(ch)
        /\ Lookup(current_manifest, "latest_hash") = TailHash(heap, ch)

\* mutant: the genesis transaction is created without looking at the chain
initialize_regenesis(heap, ch, enabled, dirs_ok, contracts, now) ==
    IF ~dirs_ok
    THEN [ txs |-> heap, chain |-> ch, ctr_integration_enabled |-> enabled,
           ret |-> FALSE ]
    ELSE LET tx == [ create_transaction(heap, ch, "genesis",
                        << <<"message", "Chronos Service Genesis Block">>,
                           <<"version", "1.0.0">> >>, now)
                     EXCEPT !.status = "confirmed" ]
             heap1 == Append(heap, tx)
         IN  [ txs |-> heap1, chain |-> Append(ch, Len(heap1)),
               ctr_integration_enabled |-> (enabled \/ contracts # <<>>),
               ret |-> TRUE ]

\* initialize: dirs_ok is whether the three mkdir calls succeed, contracts the
\* CTR contract files found on disk (self.status, which only the report reads,
\* is left out)
initialize(heap, ch, enabled, dirs_ok, contracts, now) ==
    IF ~dirs_ok
    THEN [ txs |-> heap, chain |-> ch, ctr_integration_enabled |-> enabled,
           ret |-> FALSE ]
    ELSE LET ctr == IF contracts # <<>>
                    THEN LET tx == create_transaction(heap, ch, "ctr_initialization",
                                       << <<"contracts", contracts>>,
                                          <<"integration_status", "enabled">> >>, now)
                             heap1 == Append(heap, tx)
                         IN  add_transaction(heap1, ch, Len(heap1))
                    ELSE [ txs |-> heap, chain |-> ch, ret |-> FALSE ]
             gen == IF Len(ctr.chain) = 0
                    THEN LET tx == create_transaction(ctr.txs, ctr.chain, "genesis",
                                       << <<"message", "Chronos Service Genesis Block">>,
                                          <<"version", "1.0.0">> >>, now)
                             heap1 == Append(ctr.txs, tx)
                         IN  add_transaction(heap1, ctr.chain, Len(heap1))
                    ELSE ctr
         IN  [ txs |-> gen.txs, chain |-> gen.chain,
               ctr_integration_enabled |-> (enabled \/ contracts # <<>>),
               ret |-> TRUE ]

\* len([tx for tx in self.blockchain.chain if tx.operation == operation])
CountOperation(heap, ch, operation) ==
    Cardinality({i \in 1..Len(ch) : heap[ch[i]].operation = operation})

\* update_blockchain_manifest: write_ok is whether blockchain/manifest.json can be written
update_blockchain_manifest(heap, ch, evs, prfs, enabled, write_ok, now) ==
    LET manifest == get_manifest(heap, ch, now) \o
                    << <<"consolidation_events", CountOperation(heap, ch, "consolidation_event")>>,
                       <<"temporal_events", Len(evs)>>,
                       <<"proofs_generated", Len(prfs)>>,
                       <<"ctr_integration", enabled>> >>
        tx == create_transaction(heap, ch, "manifest_update",
                  << <<"manifest_hash", calculate_hash(json_dumps(manifest))>> >>, now)
        heap1 == Append(heap, tx)
        r == add_transaction(heap1, ch, Len(heap1))
    IN  IF write_ok
        THEN [ txs |-> r.txs, chain |-> r.chain, ret |-> TRUE ]
        ELSE [ txs |-> heap, chain |-> ch, ret |-> FALSE ]

\* mutant: overall_integrity is any(...) of the four checks instead of all(...)
verify_consolidation_integrity_any(heap, ch, evs, prfs, now) ==
    LET checks == [ blockchain_integrity |-> verify_consolidation_chain(heap, ch),
                    temporal_consistency |-> verify_temporal_consistency(evs),
                    proof_validity       |-> verify_all_proofs(prfs),
                    manifest_accuracy    |-> verify_manifest_accuracy(heap, ch, now) ]
        results == [ blockchain_integrity |-> checks.blockchain_integrity,
                     temporal_consistency |-> checks.temporal_consistency,
                     proof_validity       |-> checks.proof_validity,
                     manifest_accuracy    |-> checks.manifest_accuracy,
                     overall_integrity    |-> \E k \in DOMAIN checks : checks[k] ]
        tx == create_transaction(heap, ch, "integrity_verification",
                  << <<"results", results>>, <<"verified_at", <<[iso |-> now]>> >> >>, now)
        heap1 == Append(heap, tx)
        r == add_transaction(heap1, ch, Len(heap1))
    IN  [ txs |-> r.txs, chain |-> r.chain, ret |-> results ]

\* mutant: the results are returned without being recorded in the ledger
verify_consolidation_integrity_unrecorded(heap, ch, evs, prfs, now) ==
    LET checks == [ blockchain_integrity |-> verify_consolidation_chain(heap, ch),
                    temporal_consistency |-> verify_temporal_consistency(evs),
                    proof_validity       |-> verify_all_proofs(prfs),
                    manifest_accuracy    |-> verify_manifest_accuracy(heap, ch, now) ]
    IN  [ txs |-> heap, chain |-> ch,
          ret |-> [ blockchain_integrity |-> checks.blockchain_integrity,
                    temporal_consistency |-> checks.temporal_consistency,
                    proof_validity       |-> checks.proof_validity,
                    manifest_accuracy    |-> checks.manifest_accuracy,
                    overall_integrity    |-> \A k \in DOMAIN checks : checks[k] ] ]

\* verify_consolidation_integrity: heap and chain afterwards, and the results returned
verify_consolidation_integrity(heap, ch, evs, prfs, now) ==
    LET checks == [ blockchain_integrity |-> verify_consolidation_chain(heap, ch),
                    temporal_consistency |-> verify_temporal_consistency(evs),
                    proof_validity       |-> verify_all_proofs(prfs),
                    manifest_accuracy    |-> verify_manifest_accuracy(heap, ch, now) ]
        overall_integrity == \A k \in DOMAIN checks : checks[k]
        results == [ blockchain_integrity |-> checks.blockchain_integrity,
                     temporal_consistency |-> checks.temporal_consistency,
                     proof_validity       |-> checks.proof_validity,
                     manifest_accuracy    |-> checks.manifest_accuracy,
                     overall_integrity    |-> overall_integrity ]
        tx == create_transaction(heap, ch, "integrity_verification",
                  << <<"results", results>>, <<"verified_at", <<[iso |-> now]>> >> >>, now)
        heap1 == Append(heap, tx)
        r == add_transaction(heap1, ch, Len(heap1))
    IN  [ txs |-> r.txs, chain |-> r.chain, ret |-> results ]

\* the steps of verify_consolidation_integrity in which an Exception can be
\* raised: the four checks (named by their result) and the recording of the
\* results in the ledger
FaultSteps == { "blockchain_integrity", "temporal_consistency", "proof_validity",
                "manifest_accuracy", "record" }

\* the sets of steps that raise in one call: one step, or a check and the
\* recording after it
FaultSets == { {f} : f \in FaultSteps } \cup { {"manifest_accuracy", "record"} }

\* mutant: the except clause of verify_consolidation_integrity reports
\* overall_integrity True
verify_consolidation_integrity_faulty_open(heap, ch, evs, prfs, faults, now) ==
    [ txs |-> heap, chain |-> ch,
      ret |-> [ error |-> <<"Exception">>, overall_integrity |-> TRUE ] ]

\* verify_consolidation_integrity when the steps in faults raise an Exception:
\* each check has its own except clause that returns False; an Exception
\* raised while the results are recorded reaches the except clause of
\* verify_consolidation_integrity itself
verify_consolidation_integrity_faulty(heap, ch, evs, prfs, faults, now) ==
    LET checks == [ blockchain_integrity |->
                        /\ "blockchain_integrity" \notin faults
                        /\ verify_consolidation_chain(heap, ch),
                    temporal_consistency |->
                        /\ "temporal_consistency" \notin faults
                        /\ verify_temporal_consistency(evs),
                    proof_validity |->
                        /\ "proof_validity" \notin faults
                        /\ verify_all_proofs(prfs),
                    manifest_accuracy |->
                        /\ "manifest_accuracy" \notin faults
                        /\ verify_manifest_accuracy(heap, ch, now) ]
        results == [ blockchain_integrity |-> checks.blockchain_integrity,
                     temporal_consistency |-> checks.temporal_consistency,
                     proof_validity       |-> checks.proof_validity,
                     manifest_accuracy    |-> checks.manifest_accuracy,
                     overall_integrity    |-> \A k \in DOMAIN checks : checks[k] ]
        tx == create_transaction(heap, ch, "integrity_verification",
                  << <<"results", results>>, <<"verified_at", <<[iso |-> now]>> >> >>, now)
        heap1 == Append(heap, tx)
        r == add_transaction(heap1, ch, Len(heap1))
    IN  IF "record" \in faults
        THEN [ txs |-> heap, chain |-> ch,
               ret |-> [ error |-> <<"Exception">>, overall_integrity |-> FALSE ] ]
        ELSE [ txs |-> r.txs, chain |-> r.chain, ret |-> results ]

\* mutant: every proof is counted as pending, finalized or not
get_consolidation_report_pending_all(heap, ch, evs, prfs, enabled, write_ok, now) ==
    LET timeline == get_event_timeline(evs, NoAgent)
        v == verify_consolidation_integrity(heap, ch, evs, prfs, now)
        report == [ report_id              |-> calculate_hash(<<"report_", now>>),
                    generated_at           |-> <<[iso |-> now]>>,
                    blockchain_statistics  |-> get_manifest(heap, ch, now),
                    temporal_events        |-> Len(timeline),
                    proof_statistics       |->
                        [ total_proofs    |-> Len(prfs),
                          verified_proofs |-> Cardinality({ i \in 1..Len(prfs) : prfs[i].verified }),
                          pending_proofs  |-> Len(prfs) ],
                    integrity_verification |-> v.ret,
                    service_status         |-> [ ctr_integration |-> enabled ] ]
    IN  [ txs |-> v.txs, chain |-> v.chain,
          ret |-> IF write_ok THEN report ELSE [ error |-> <<"Exception">> ] ]

\* get_consolidation_report: heap and chain afterwards (the integrity
\* verification it runs records its results) and the report returned; write_ok
\* is whether the report file under state/ can be written, and every Exception
\* returns a dict with only an error entry (self.version is a literal and
\* self.status is read by nothing else; both are left out of service_status)
get_consolidation_report(heap, ch, evs, prfs, enabled, write_ok, now) ==
    LET blockchain_stats == get_manifest(heap, ch, now)
        timeline == get_event_timeline(evs, NoAgent)
        proof_stats ==
            [ total_proofs    |-> Len(prfs),
              verified_proofs |-> Cardinality({ i \in 1..Len(prfs) : prfs[i].verified }),
              pending_proofs  |-> Cardinality({ i \in 1..Len(prfs) : ~prfs[i].verified }) ]
        v == verify_consolidation_integrity(heap, ch, evs, prfs, now)
        report == [ report_id              |-> calculate_hash(<<"report_", now>>),
                    generated_at           |-> <<[iso |-> now]>>,
                    blockchain_statistics  |-> blockchain_stats,
                    temporal_events        |-> Len(timeline),
                    proof_statistics       |-> proof_stats,
                    integrity_verification |-> v.ret,
                    service_status         |-> [ ctr_integration |-> enabled ] ]
    IN  [ txs |-> v.txs, chain |-> v.chain,
          ret |-> IF write_ok THEN report ELSE [ error |-> <<"Exception">> ] ]

\* ChronosService.generate_consolidation_proof: the proof list, heap and chain
\* afterwards, and the proof id returned
service_generate_consolidation_proof(heap, ch, prfs, operation, files, disk, now) ==
    LET g == generate_consolidation_proof(prfs, operation, files, disk, now)
        r == record_consolidation_event(heap, ch,
                 [ type      |-> "proof_generation",
                   operation |-> operation,
                   files     |-> files,
                   proof_id  |-> g.ret.proof_id,
                   agent     |-> "chronos" ], now)
    IN  [ proofs |-> g.proofs, txs |-> r.txs, chain |-> r.chain, ret |-> g.ret.proof_id ]

\* the loop of coordinate_consolidation_phase over its operations, from the i-th on
RECURSIVE RecordOperations(_, _, _, _, _, _)
RecordOperations(heap, ch, operations, i, event_id, now) ==
    IF i > Len(operations)
    THEN [ txs |-> heap, chain |-> ch ]
    ELSE LET operation == operations[i]
             r == record_consolidation_event(heap, ch,
                      [ type      |-> "phase_operation",
                        operation |-> DictGet(operation, "name", "unknown"),
                        files     |-> DictGet(operation, "files", <<>>),
                        agent     |-> DictGet(operation, "agent", "unknown"),
                        metadata  |-> << <<"event_id", event_id>> >> ], now)
         IN  RecordOperations(r.txs, r.chain, operations, i + 1, event_id, now)

----------------------------------------------------------------------------
(* Inputs *)

\* payload dicts handed to create_transaction by a direct caller
Payloads == { << <<"a", 1>> >>, << <<"a", 2>> >> }

\* payload dicts of one and two entries; two of them are the same dict with
\* its entries inserted in another order
OrderedPayloads == { << <<"a", 1>>, <<"b", 2>> >>, << <<"b", 2>>, <<"a", 1>> >>,
                     << <<"a", 1>> >> }

\* event_data dicts handed to record_consolidation_event
EventDatas == { [ type |-> "merge", files |-> <<"f1">> ],
                [ type |-> "merge", files |-> <<"f1">>, metadata |-> NotJSON ] }

\* agent lists handed to coordinate_operation
\* (it only loops over the list, so its order and repetitions play no part)
AgentLists == { {"A", "B"}, {"B", "C"}, {"C"} }

\* agent lists handed to coordinate_consolidation_phase
PhaseAgentLists == { {"A", "B"} }

\* agents that register events of their own
EventAgents == { "A" }

\* agent names under which callers register events that are queried later
\* (register_event takes any str), and the arguments of get_event_timeline
TimelineAgents == { "A", "" }

QueryAgents == { NoAgent, "", "A" }

\* operations lists handed to coordinate_consolidation_phase
OperationLists == { <<>>,
                    << [ name |-> "scan", files |-> <<"f1">>, agent |-> "A" ] >> }

\* operations lists of a phase, one with an operation that cannot be serialized
PhaseOperationLists ==
    { << [ name |-> "scan", files |-> <<"f1">>, agent |-> "A" ] >>,
      << [ name |-> "scan", files |-> NotJSONFiles, agent |-> "A" ],
         [ name |-> "move", files |-> <<"f1">>, agent |-> "A" ] >> }

\* the CTR contract files initialize_ctr_integration may find
ContractLists == { <<>>, <<"contracts/CivicTrustRegistry.sol">> }

\* operation names and file lists handed to generate_consolidation_proof and
\* finalize_proof
ProofOperations == { "merge", "scan" }

FileLists == { <<>>, <<"f1">> }

\* what the files hold when they are read: f1 is missing, or has content
Disks == { [ f1 |-> [ exists |-> FALSE, bytes |-> <<>> ] ],
           [ f1 |-> [ exists |-> TRUE, bytes |-> <<"v1">> ] ] }

\* a proof id that no proof carries
UnknownProofId == calculate_hash(<<"unknown", 0>>)

\* the proof ids a caller passes: those it was given, and one it made up
ProofIds(prfs) == { prfs[i].proof_id : i \in 1..Len(prfs) } \cup { UnknownProofId }

\* the value an outside writer puts into a hash field of a transaction: a
\* digest that no transaction of the ledger carries
Forged == <<[sha256 |-> <<[forged |-> 1]>>]>>

\* the hash fields of a transaction
HashFields == {"data_hash", "previous_hash"}

----------------------------------------------------------------------------
(* State *)

IdleFrame ==
    [ pc |-> "idle", kind |-> "", agents |-> {}, coordination_id |-> <<>>,
      event_id |-> <<>>, phase |-> "", operations |-> <<>> ]

Returned(op, arg, ret, via) == [ op |-> op, arg |-> arg, ret |-> ret, via |-> via ]

Init ==
    /\ txs = <<>>
    /\ chain = <<>>
    /\ events = <<>>
    /\ sequence_counter = 0
    /\ coordination_locks = <<>>
    /\ calls = [c \in Calls |-> IdleFrame]
    /\ proofs = <<>>
    /\ ctr_integration_enabled = FALSE
    /\ clock = 0
    /\ last = Returned("__init__", <<>>, <<>>, "")

RECURSIVE SumTo(_, _)
SumTo(f, n) == IF n = 0 THEN 0 ELSE f[n] + SumTo(f, n - 1)

\* events and transactions the suspended coroutines will still append
ReservedEvents ==
    SumTo([c \in Calls |-> IF calls[c].pc = "running"
                           THEN (IF calls[c].kind = "phase" THEN 2 ELSE 1)
                           ELSE 0], MaxCalls)

ReservedTxs ==
    SumTo([c \in Calls |-> IF calls[c].pc = "running" THEN Len(calls[c].operations) ELSE 0],
          MaxCalls)

\* the model's bounds leave room for heap and chain r and for what is reserved
LedgerFits(heap, ch) ==
    /\ Len(heap) + ReservedTxs <= MaxTx
    /\ Len(ch) + ReservedTxs <= MaxChain

EventsFit(evs, reserved) == Len(evs) + reserved <= MaxEvents

FreeCall(c) ==
    /\ calls[c].pc = "idle"
    /\ \A d \in Calls : d < c => calls[d].pc # "idle"

----------------------------------------------------------------------------
(* Actions *)

\* time passes
Tick ==
    /\ clock < MaxClock
    /\ clock' = clock + 1
    /\ UNCHANGED <<txs, chain, events, sequence_counter, coordination_locks, calls,
                   proofs, ctr_integration_enabled, last>>

\* a caller calls BlockchainOrchestrator.create_transaction and keeps the object
CreateTransaction(data) ==
    /\ LedgerFits(Append(txs, 0), chain)
    /\ txs' = Append(txs, create_transaction(txs, chain, "transfer", data, clock))
    /\ last' = Returned("create_transaction", data, Len(txs) + 1, "")
    /\ UNCHANGED <<chain, events, sequence_counter, coordination_locks, calls,
                   proofs, ctr_integration_enabled, clock>>

\* a caller builds a BlockchainTransaction by hand: as create_transaction does,
\* but with an empty tx_id or an empty timestamp
ConstructTransaction(data, blank_id, blank_ts) ==
    /\ blank_id # blank_ts
    /\ LedgerFits(Append(txs, 0), chain)
    /\ LET tx == create_transaction(txs, chain, "transfer", data, clock)
       IN  txs' = Append(txs, [tx EXCEPT !.tx_id = IF blank_id THEN <<>> ELSE @,
                                         !.timestamp = IF blank_ts THEN <<>> ELSE @])
    /\ last' = Returned("BlockchainTransaction", data, Len(txs) + 1, "")
    /\ UNCHANGED <<chain, events, sequence_counter, coordination_locks, calls,
                   proofs, ctr_integration_enabled, clock>>

\* a caller calls BlockchainOrchestrator.add_transaction on an object it holds
AddTransaction(h) ==
    LET r == add_transaction(txs, chain, h)
    IN  /\ LedgerFits(r.txs, r.chain)
        /\ txs' = r.txs
        /\ chain' = r.chain
        /\ last' = Returned("add_transaction", h, r.ret, "")
        /\ UNCHANGED <<events, sequence_counter, coordination_locks, calls,
                       proofs, ctr_integration_enabled, clock>>

\* a caller calls TemporalCoordinator.register_event
RegisterEvent(agent) ==
    LET r == register_event(events, sequence_counter, "custom", agent, <<>>, clock)
    IN  /\ EventsFit(r.events, ReservedEvents)
        /\ events' = r.events
        /\ sequence_counter' = r.sequence_counter
        /\ last' = Returned("register_event", agent, r.ret, "")
        /\ UNCHANGED <<txs, chain, coordination_locks, calls,
                       proofs, ctr_integration_enabled, clock>>

\* a caller starts TemporalCoordinator.coordinate_operation: it runs to the
\* awaited sleep, or returns False at once
CoordinateOperation(agents) ==
    LET r == coordinate_begin(coordination_locks, events, sequence_counter,
                              "sync", agents, clock)
    IN  /\ EventsFit(r.events, ReservedEvents + (IF r.suspended THEN 1 ELSE 0))
        /\ coordination_locks' = r.locks
        /\ events' = r.events
        /\ sequence_counter' = r.sequence_counter
        /\ IF r.suspended
           THEN /\ \E c \in Calls :
                    /\ FreeCall(c)
                    /\ calls' = [calls EXCEPT ![c] =
                          [IdleFrame EXCEPT !.pc = "running", !.kind = "coordinate",
                                            !.agents = agents,
                                            !.coordination_id = coordination_id("sync", clock)]]
                /\ last' = Returned("coordinate_operation", agents, FALSE, "suspended")
           ELSE /\ calls' = calls
                /\ last' = Returned("coordinate_operation", agents, r.ret, "rejected")
        /\ UNCHANGED <<txs, chain, proofs, ctr_integration_enabled, clock>>

\* a caller starts ChronosService.coordinate_consolidation_phase: it registers
\* phase_start and enters coordinate_operation
CoordinatePhase(agents, operations) ==
    LET p == register_event(events, sequence_counter, "phase_start", "chronos",
                 [ phase |-> "merge", agents |-> agents, operations |-> operations ], clock)
        operation == <<"consolidation_phase", "merge">>
        r == coordinate_begin(coordination_locks, p.events, p.sequence_counter,
                              operation, agents, clock)
    IN  /\ EventsFit(r.events, ReservedEvents + (IF r.suspended THEN 2 ELSE 0))
        /\ r.suspended => LedgerFits(txs \o operations, chain \o operations)
        /\ coordination_locks' = r.locks
        /\ events' = r.events
        /\ sequence_counter' = r.sequence_counter
        /\ IF r.suspended
           THEN /\ \E c \in Calls :
                    /\ FreeCall(c)
                    /\ calls' = [calls EXCEPT ![c] =
                          [ pc |-> "running", kind |-> "phase", agents |-> agents,
                            coordination_id |-> coordination_id(operation, clock),
                            event_id |-> p.ret, phase |-> "merge",
                            operations |-> operations ]]
                /\ last' = Returned("coordinate_consolidation_phase", agents, FALSE, "suspended")
           ELSE /\ calls' = calls
                /\ last' = Returned("coordinate_consolidation_phase", agents, FALSE, "rejected")
        /\ UNCHANGED <<txs, chain, proofs, ctr_integration_enabled, clock>>

\* the sleep of call c ends: coordinate_operation runs to its return and, in a
\* phase, coordinate_consolidation_phase runs on to its own return
Resume(c) ==
    LET f == calls[c]
        r == coordinate_finish(coordination_locks, events, sequence_counter,
                               f.coordination_id, f.agents, clock)
        l == RecordOperations(txs, chain, f.operations, 1, f.event_id, clock)
        q == register_event(r.events, r.sequence_counter, "phase_complete", "chronos",
                 [ phase |-> f.phase, status |-> "success" ], clock)
    IN  /\ f.pc = "running"
        /\ coordination_locks' = r.locks
        /\ calls' = [calls EXCEPT ![c] = IdleFrame]
        /\ IF f.kind = "phase"
           THEN /\ events' = q.events
                /\ sequence_counter' = q.sequence_counter
                /\ txs' = l.txs
                /\ chain' = l.chain
                /\ last' = Returned("coordinate_consolidation_phase", f.agents, TRUE, "completed")
           ELSE /\ events' = r.events
                /\ sequence_counter' = r.sequence_counter
                /\ UNCHANGED <<txs, chain>>
                /\ last' = Returned("coordinate_operation", f.agents, r.ret, "completed")
        /\ UNCHANGED <<proofs, ctr_integration_enabled, clock>>

\* the awaited step of call c raises an Exception: the except clause runs,
\* coordinate_operation returns False and so does a phase around it
Fault(c) ==
    LET f == calls[c]
        r == coordinate_error(coordination_locks, events, sequence_counter, f.agents)
    IN  /\ f.pc = "running"
        /\ coordination_locks' = r.locks
        /\ events' = r.events
        /\ sequence_counter' = r.sequence_counter
        /\ calls' = [calls EXCEPT ![c] = IdleFrame]
        /\ last' = Returned(IF f.kind = "phase" THEN "coordinate_consolidation_phase"
                            ELSE "coordinate_operation", f.agents, r.ret, "error")
        /\ UNCHANGED <<txs, chain, proofs, ctr_integration_enabled, clock>>

\* a caller calls DLTOperations.record_consolidation_event
RecordEvent(event_data) ==
    LET r == record_consolidation_event(txs, chain, event_data, clock)
    IN  /\ LedgerFits(r.txs, r.chain)
        /\ txs' = r.txs
        /\ chain' = r.chain
        /\ last' = Returned("record_consolidation_event", event_data, r.ret, "")
        /\ UNCHANGED <<events, sequence_counter, coordination_locks, calls,
                       proofs, ctr_integration_enabled, clock>>

\* a caller calls ChronosService.initialize
Initialize(dirs_ok, contracts) ==
    LET r == initialize(txs, chain, ctr_integration_enabled, dirs_ok, contracts, clock)
    IN  /\ LedgerFits(r.txs, r.chain)
        /\ txs' = r.txs
        /\ chain' = r.chain
        /\ ctr_integration_enabled' = r.ctr_integration_enabled
        /\ last' = Returned("initialize", <<>>, r.ret, "")
        /\ UNCHANGED <<events, sequence_counter, coordination_locks, calls, proofs, clock>>

\* a caller calls ChronosService.update_blockchain_manifest
UpdateManifest(write_ok) ==
    LET r == update_blockchain_manifest(txs, chain, events, proofs,
                                        ctr_integration_enabled, write_ok, clock)
    IN  /\ LedgerFits(r.txs, r.chain)
        /\ txs' = r.txs
        /\ chain' = r.chain
        /\ last' = Returned("update_blockchain_manifest", <<>>, r.ret, "")
        /\ UNCHANGED <<events, sequence_counter, coordination_locks, calls,
                       proofs, ctr_integration_enabled, clock>>

\* a caller calls ChronosService.verify_consolidation_integrity
VerifyIntegrity ==
    LET r == verify_consolidation_integrity(txs, chain, events, proofs, clock)
    IN  /\ LedgerFits(r.txs, r.chain)
        /\ txs' = r.txs
        /\ chain' = r.chain
        /\ last' = Returned("verify_consolidation_integrity", <<>>, r.ret, "")
        /\ UNCHANGED <<events, sequence_counter, coordination_locks, calls,
                       proofs, ctr_integration_enabled, clock>>

\* the fields of transaction objects that hold a forged value
ForgedFields(heap) ==
    { <<h, field>> \in (1..Len(heap)) \X HashFields : heap[h][field] = Forged }

\* a holder of a reference to the i-th element of the chain (the chain is a
\* public attribute, the dataclass is mutable) overwrites one of its hash fields
Corrupt(i, field) ==
    /\ i \in 1..Len(chain)
    /\ txs[chain[i]][field] # Forged
    /\ Cardinality(ForgedFields(txs)) < MaxCorrupt
    /\ txs' = [txs EXCEPT ![chain[i]][field] = Forged]
    /\ last' = Returned("corrupt", <<i, field>>, <<>>, "")
    /\ UNCHANGED <<chain, events, sequence_counter, coordination_locks, calls,
                   proofs, ctr_integration_enabled, clock>>

\* a holder of a reference to the k-th event (the event list is a public
\* attribute, the dataclass is mutable) overwrites its sequence number
TamperSequence(k, value) ==
    /\ k \in 1..Len(events)
    /\ events[k].sequence # value
    /\ Cardinality({ j \in 1..Len(events) : events[j].sequence # j } \ {k}) < MaxCorrupt
    /\ events' = [events EXCEPT ![k].sequence = value]
    /\ last' = Returned("tamper", <<k, value>>, <<>>, "")
    /\ UNCHANGED <<txs, chain, sequence_counter, coordination_locks, calls,
                   proofs, ctr_integration_enabled, clock>>

\* a caller calls DLTOperations.verify_consolidation_chain
VerifyChain ==
    /\ last' = Returned("verify_consolidation_chain", <<>>,
                        verify_consolidation_chain_logged(txs, chain), "")
    /\ UNCHANGED <<txs, chain, events, sequence_counter, coordination_locks, calls,
                   proofs, ctr_integration_enabled, clock>>

\* a caller calls ChronosService.generate_consolidation_proof
GenerateProof(operation, files, disk) ==
    LET r == service_generate_consolidation_proof(txs, chain, proofs, operation, files,
                                                  disk, clock)
    IN  /\ Len(r.proofs) <= MaxProofs
        /\ LedgerFits(r.txs, r.chain)
        /\ proofs' = r.proofs
        /\ txs' = r.txs
        /\ chain' = r.chain
        /\ last' = Returned("generate_consolidation_proof", <<operation, files>>, r.ret, "")
        /\ UNCHANGED <<events, sequence_counter, coordination_locks, calls,
                       ctr_integration_enabled, clock>>

\* a caller calls ProofEngine.finalize_proof
FinalizeProof(proof_id, files, disk) ==
    LET r == finalize_proof(proofs, proof_id, files, disk)
    IN  /\ proofs' = r.proofs
        /\ last' = Returned("finalize_proof", proof_id, r.ret, "")
        /\ UNCHANGED <<txs, chain, events, sequence_counter, coordination_locks, calls,
                       ctr_integration_enabled, clock>>

\* a caller calls ProofEngine.verify_integrity
VerifyProof(proof_id) ==
    /\ last' = Returned("verify_integrity", proof_id, verify_integrity(proofs, proof_id), "")
    /\ UNCHANGED <<txs, chain, events, sequence_counter, coordination_locks, calls,
                   proofs, ctr_integration_enabled, clock>>

\* a caller calls ChronosService.verify_consolidation_integrity and the steps
\* in faults raise an Exception
VerifyIntegrityFault(faults) ==
    LET r == verify_consolidation_integrity_faulty(txs, chain, events, proofs, faults, clock)
    IN  /\ faults # {}
        /\ LedgerFits(r.txs, r.chain)
        /\ txs' = r.txs
        /\ chain' = r.chain
        /\ last' = Returned("verify_consolidation_integrity", faults, r.ret, "fault")
        /\ UNCHANGED <<events, sequence_counter, coordination_locks, calls,
                       proofs, ctr_integration_enabled, clock>>

\* a caller calls TemporalCoordinator.get_event_timeline
GetTimeline(agent) ==
    /\ last' = Returned("get_event_timeline", agent, get_event_timeline(events, agent), "")
    /\ UNCHANGED <<txs, chain, events, sequence_counter, coordination_locks, calls,
                   proofs, ctr_integration_enabled, clock>>

\* a caller calls BlockchainOrchestrator.get_manifest
GetManifest ==
    /\ last' = Returned("get_manifest", <<>>, get_manifest(txs, chain, clock), "")
    /\ UNCHANGED <<txs, chain, events, sequence_counter, coordination_locks, calls,
                   proofs, ctr_integration_enabled, clock>>

\* a caller calls ChronosService.get_consolidation_report
GetReport(write_ok) ==
    LET r == get_consolidation_report(txs, chain, events, proofs,
                                      ctr_integration_enabled, write_ok, clock)
    IN  /\ LedgerFits(r.txs, r.chain)
        /\ txs' = r.txs
        /\ chain' = r.chain
        /\ last' = Returned("get_consolidation_report", write_ok, r.ret, "")
        /\ UNCHANGED <<events, sequence_counter, coordination_locks, calls,
                       proofs, ctr_integration_enabled, clock>>

Next ==
    \/ Tick
    \/ \E agent \in QueryAgents : GetTimeline(agent)
    \/ GetManifest
    \/ \E data \in OrderedPayloads : CreateTransaction(data)
    \/ \E write_ok \in BOOLEAN : GetReport(write_ok)
    \/ \E faults \in FaultSets : VerifyIntegrityFault(faults)
    \/ \E k \in 1..MaxEvents, value \in 0..(MaxEvents + 1) : TamperSequence(k, value)
    \/ \E operation \in ProofOperations, files \in FileLists, disk \in Disks :
            GenerateProof(operation, files, disk)
    \/ \E proof_id \in ProofIds(proofs), files \in FileLists, disk \in Disks :
            FinalizeProof(proof_id, files, disk)
    \/ \E proof_id \in ProofIds(proofs) : VerifyProof(proof_id)
    \/ \E i \in 1..MaxChain, field \in HashFields : Corrupt(i, field)
    \/ VerifyChain
    \/ \E data \in Payloads : CreateTransaction(data)
    \/ \E blank_id, blank_ts \in BOOLEAN :
            ConstructTransaction(<< <<"a", 1>> >>, blank_id, blank_ts)
    \/ \E h \in 1..Len(txs) : AddTransaction(h)
    \/ \E agent \in EventAgents : RegisterEvent(agent)
    \/ \E agents \in AgentLists : CoordinateOperation(agents)
    \/ \E agents \in PhaseAgentLists, operations \in OperationLists :
            CoordinatePhase(agents, operations)
    \/ \E c \in Calls : Resume(c)
    \/ \E c \in Calls : Fault(c)
    \/ \E event_data \in EventDatas : RecordEvent(event_data)
    \/ \E dirs_ok \in BOOLEAN, contracts \in ContractLists : Initialize(dirs_ok, contracts)
    \/ \E write_ok \in BOOLEAN : UpdateManifest(write_ok)
    \/ VerifyIntegrity

Spec == Init /\ [][Next]_vars

\* callers of the ledger's own interface, beside one facade caller
NextLedger ==
    \/ \E data \in Payloads : CreateTransaction(data)
    \/ \E blank_id, blank_ts \in BOOLEAN :
            ConstructTransaction(<< <<"a", 1>> >>, blank_id, blank_ts)
    \/ \E h \in 1..Len(txs) : AddTransaction(h)
    \/ \E event_data \in EventDatas : RecordEvent(event_data)

SpecLedger == Init /\ [][NextLedger]_vars

\* callers of the facade, beside one caller of the ledger's own interface
NextFacade ==
    \/ CreateTransaction(<< <<"a", 1>> >>)
    \/ \E h \in 1..Len(txs) : AddTransaction(h)
    \/ \E event_data \in EventDatas : RecordEvent(event_data)
    \/ \E dirs_ok \in BOOLEAN, contracts \in ContractLists : Initialize(dirs_ok, contracts)
    \/ \E write_ok \in BOOLEAN : UpdateManifest(write_ok)
    \/ VerifyIntegrity

SpecFacade == Init /\ [][NextFacade]_vars

\* the ledger as record_consolidation_event and add_transaction build it, a
\* writer that overwrites hash fields, and the chain verifier
NextTamper ==
    \/ \E h \in 1..Len(txs) : AddTransaction(h)
    \/ \E event_data \in EventDatas : RecordEvent(event_data)
    \/ \E i \in 1..MaxChain, field \in HashFields : Corrupt(i, field)
    \/ VerifyChain

SpecTamper == Init /\ [][NextTamper]_vars

\* the proof engine and the facade's proof and verification calls; two calls
\* that name the same operation read the same time.time() here
NextProof ==
    \/ \E operation \in ProofOperations, files \in FileLists, disk \in Disks :
            GenerateProof(operation, files, disk)
    \/ \E proof_id \in ProofIds(proofs), files \in FileLists, disk \in Disks :
            FinalizeProof(proof_id, files, disk)
    \/ \E proof_id \in ProofIds(proofs) : VerifyProof(proof_id)
    \/ VerifyIntegrity

SpecProof == Init /\ [][NextProof]_vars

\* the aggregate verification over a ledger and a proof list that can both fail
\* their checks: proofs over one file, and a writer that overwrites a
\* previous_hash
NextVerify ==
    \/ \E disk \in Disks : GenerateProof("merge", <<"f1">>, disk)
    \/ \E proof_id \in ProofIds(proofs), disk \in Disks :
            FinalizeProof(proof_id, <<"f1">>, disk)
    \/ \E i \in 1..MaxChain : Corrupt(i, "previous_hash")
    \/ VerifyIntegrity

SpecVerify == Init /\ [][NextVerify]_vars

\* a short event list, a writer that overwrites sequence numbers, and the
\* aggregate verification
NextTimeline ==
    \/ \E agent \in EventAgents : Len(events) < MaxTimeline /\ RegisterEvent(agent)
    \/ \E k \in 1..MaxTimeline, value \in 0..(MaxTimeline + 1) : TamperSequence(k, value)
    \/ VerifyIntegrity

SpecTimeline == Init /\ [][NextTimeline]_vars

\* the aggregate verification with and without Exceptions in its steps
NextFault ==
    \/ VerifyIntegrity
    \/ \E faults \in FaultSets : VerifyIntegrityFault(faults)

SpecFault == Init /\ [][NextFault]_vars

\* the report over proofs of one file and a short event list
NextReport ==
    \/ \E disk \in Disks : GenerateProof("merge", <<"f1">>, disk)
    \/ \E proof_id \in ProofIds(proofs), disk \in Disks :
            FinalizeProof(proof_id, <<"f1">>, disk)
    \/ \E agent \in EventAgents : Len(events) < MaxTimeline /\ RegisterEvent(agent)
    \/ \E write_ok \in BOOLEAN : GetReport(write_ok)

SpecReport == Init /\ [][NextReport]_vars

\* calls of coordinate_operation alone
NextOperation ==
    \/ \E agents \in AgentLists : CoordinateOperation(agents)
    \/ \E c \in Calls : Resume(c)
    \/ \E c \in Calls : Fault(c)

\* the state after construction, seen by callers of coordinate_operation alone:
\* nothing has returned yet, and the record of the last return has the shape
\* of a return of coordinate_operation (a set of agents, a boolean)
InitOperation ==
    /\ txs = <<>>
    /\ chain = <<>>
    /\ events = <<>>
    /\ sequence_counter = 0
    /\ coordination_locks = <<>>
    /\ calls = [c \in Calls |-> IdleFrame]
    /\ proofs = <<>>
    /\ ctr_integration_enabled = FALSE
    /\ clock = 0
    /\ last = Returned("__init__", {}, FALSE, "")

\* the event loop resumes a coroutine whose sleep has ended: a suspended call
\* runs on to its return or to its except clause
SpecOperation ==
    /\ InitOperation
    /\ [][NextOperation]_vars
    /\ \A c \in Calls : WF_calls(Resume(c) \/ Fault(c))

\* a caller of the ledger's own interface: it creates transactions, adds
\* them and reads the manifest
NextCreate ==
    \/ \E data \in OrderedPayloads : CreateTransaction(data)
    \/ \E h \in 1..Len(txs) : AddTransaction(h)
    \/ GetManifest

SpecCreate == Init /\ [][NextCreate]_vars

\* a short event list of two agents, a writer that overwrites sequence
\* numbers, and the timeline queries
NextQuery ==
    \/ \E agent \in TimelineAgents : Len(events) < MaxTimeline /\ RegisterEvent(agent)
    \/ \E k \in 1..MaxTimeline, value \in 0..(MaxTimeline + 1) : TamperSequence(k, value)
    \/ \E agent \in QueryAgents : GetTimeline(agent)

SpecQuery == Init /\ [][NextQuery]_vars

\* callers that create transactions while the chain has at most one element
\* and add them in any order: the tail a transaction was created on is then
\* told by its previous_hash (the genesis sentinel, or the data_hash of the
\* first element of the chain)
NextFork ==
    \/ \E data \in Payloads : Len(chain) <= 1 /\ CreateTransaction(data)
    \/ \E h \in 1..Len(txs) : AddTransaction(h)

SpecFork == Init /\ [][NextFork]_vars

\* the concurrent callers of the facade that write to the ledger: recorders of
\* events, phases (suspended in their coordination), manifest updates and
\* integrity verifications
NextRecord ==
    \/ \E event_data \in EventDatas : RecordEvent(event_data)
    \/ \E agents \in PhaseAgentLists, operations \in OperationLists :
            CoordinatePhase(agents, operations)
    \/ \E c \in Calls : Resume(c)
    \/ \E write_ok \in BOOLEAN : UpdateManifest(write_ok)
    \/ VerifyIntegrity

SpecRecord == Init /\ [][NextRecord]_vars

\* phases on one agent list, so that a second phase is turned away while the
\* first is suspended, and a caller that registers events in between
NextPhase ==
    \/ \E agents \in PhaseAgentLists, operations \in PhaseOperationLists :
            CoordinatePhase(agents, operations)
    \/ \E agent \in EventAgents : RegisterEvent(agent)
    \/ \E c \in Calls : Resume(c)
    \/ \E c \in Calls : Fault(c)

SpecPhase == Init /\ [][NextPhase]_vars

\* the coordinator and the coroutines that suspend in it
NextCoord ==
    \/ \E agent \in EventAgents : RegisterEvent(agent)
    \/ \E agents \in AgentLists : CoordinateOperation(agents)
    \/ \E agents \in PhaseAgentLists, operations \in OperationLists :
            CoordinatePhase(agents, operations)
    \/ \E c \in Calls : Resume(c)
    \/ \E c \in Calls : Fault(c)

SpecCoord == Init /\ [][NextCoord]_vars

----------------------------------------------------------------------------
(* Claims *)

\* C1: the chain is hash-linked: chain[0].previous_hash is the genesis
\* sentinel and every later element's previous_hash is the data_hash of the
\* element before it, whatever calls were made.
C1_ChainLinked ==
    \A i \in 1..Len(chain) :
        txs[chain[i]].previous_hash =
            (IF i = 1 THEN genesis_hash ELSE txs[chain[i - 1]].data_hash)

\* a chain of three with a facade transaction in it, after a stale transaction was rejected
C1_Witness ==
    /\ Len(chain) >= 3
    /\ \E h \in 1..Len(txs) : txs[h].status = "rejected" /\ txs[h].tx_id # <<>>
    /\ \E i \in 1..Len(chain) : txs[chain[i]].operation = "integrity_verification"

\* C2: no agent is in the requested sets of two calls that are both between
\* lock acquisition and lock release.
C2_MutualExclusion ==
    \A c, d \in Calls :
        (c # d /\ calls[c].pc = "running" /\ calls[d].pc = "running")
            => calls[c].agents \cap calls[d].agents = {}

\* two calls hold locks at once and a third, overlapping one was just turned away
C2_Witness ==
    /\ \E c, d \in Calls : c # d /\ calls[c].pc = "running" /\ calls[d].pc = "running"
    /\ last.op = "coordinate_operation" /\ last.via = "rejected"

\* C3: acquisition is all or nothing: in every step the agents whose lock goes
\* from free to held are either none, or exactly the requested set of the one
\* call that acquires in that step; a call that is turned away locks nothing.
C3_AtomicAcquisition ==
    [][ LET gained == { a \in Agents : /\ ~IsLocked(coordination_locks, a)
                                       /\ IsLocked(coordination_locks', a) }
        IN  \/ gained = {}
            \/ \E c \in Calls : /\ calls[c].pc = "idle"
                                /\ calls'[c].pc = "running"
                                /\ gained = calls'[c].agents ]_vars

\* {A,B} is held, {B,C} was requested and turned away, and C is not locked
C3_Witness ==
    /\ \E c \in Calls : calls[c].pc = "running" /\ calls[c].agents = {"A", "B"}
    /\ last.op = "coordinate_operation" /\ last.via = "rejected" /\ last.arg = {"B", "C"}
    /\ ~IsLocked(coordination_locks, "C")

\* C4 as stated: when a coordinate_operation call has returned, true or false,
\* every agent of its requested set has its lock free.
C4_FreeAfterAnyReturn ==
    (last.op = "coordinate_operation" /\ last.via # "suspended")
        => \A a \in last.arg : ~IsLocked(coordination_locks, a)

\* C4 as amended: when a call that acquired its locks has returned (true, or
\* false on the error path) every agent of its requested set is free; when a
\* call was turned away, an agent of its set is still held by another call.
C4_FreeAfterOwnReturn ==
    /\ (last.op = "coordinate_operation" /\ last.via \in {"completed", "error"})
            => \A a \in last.arg : ~IsLocked(coordination_locks, a)
    /\ (last.op = "coordinate_operation" /\ last.via = "rejected")
            => \E a \in last.arg : \E c \in Calls :
                    /\ calls[c].pc = "running"
                    /\ a \in calls[c].agents
                    /\ IsLocked(coordination_locks, a)

\* a call has completed while another call still holds its own locks
C4_Witness ==
    /\ last.op = "coordinate_operation" /\ last.via = "completed" /\ last.ret = TRUE
    /\ \E c \in Calls : calls[c].pc = "running"

\* C5: in the step in which a call returns after acquisition (completion or
\* the error path), every lock it acquired goes from held to free.
C5_ReleasedBeforeReturn ==
    [][ \A c \in Calls :
            (calls[c].pc = "running" /\ calls'[c].pc = "idle")
                => \A a \in calls[c].agents :
                        /\ IsLocked(coordination_locks, a)
                        /\ ~IsLocked(coordination_locks', a) ]_vars

\* a call has left on the error path
C5_Witness ==
    /\ last.op = "coordinate_operation" /\ last.via = "error" /\ last.ret = FALSE
    /\ last.arg = {"A", "B"}

\* C6: a call that starts on agents held by a running call returns False in
\* that same step, the running call still suspended and the lock table as it was.
C6_RejectedAtOnce ==
    [][ ( /\ last'.op = "coordinate_operation"
          /\ last'.via \in {"rejected", "suspended"}
          /\ \E c \in Calls : /\ calls[c].pc = "running"
                              /\ calls[c].agents \cap last'.arg # {} )
        => ( /\ last'.via = "rejected"
             /\ last'.ret = FALSE
             /\ calls' = calls
             /\ coordination_locks' = coordination_locks ) ]_vars

\* the first call on {A,B} is suspended, the second on {A,B} has returned False
C6_Witness ==
    /\ \E c \in Calls : calls[c].pc = "running" /\ calls[c].agents = {"A", "B"}
    /\ last.op = "coordinate_operation" /\ last.via = "rejected" /\ last.arg = {"A", "B"}
    /\ last.ret = FALSE
    /\ IsLocked(coordination_locks, "A") /\ IsLocked(coordination_locks, "B")

\* C7: the k-th event has sequence number k and the counter is the number of events.
C7_DenseSequence ==
    /\ sequence_counter = Len(events)
    /\ \A k \in 1..Len(events) : events[k].sequence = k

\* events of a caller, of coordinate_operation and of a phase, interleaved
C7_Witness ==
    /\ Len(events) >= 5
    /\ \E i, j, k \in 1..Len(events) :
            /\ i < j /\ j < k
            /\ events[i].event_type = "coordination_start"
            /\ events[j].agent = "A"
            /\ events[k].event_type = "phase_complete"

\* C8 as stated: add_transaction on a transaction that is already in the chain,
\* with another transaction appended after it, never succeeds (fails here when
\* the call returned True and appended the transaction again).
C8_ReAddFails ==
    ~ ( /\ last.op = "add_transaction"
        /\ last.ret = TRUE
        /\ \E i \in 1..(Len(chain) - 2) : chain[i] = last.arg
        /\ chain[Len(chain) - 1] # last.arg )

\* C9 as stated: a rejecting add_transaction returns False, marks the
\* transaction rejected and leaves the length and every element of the chain
\* as they were.
C9_RejectionLeavesChain ==
    [][ (last'.op = "add_transaction" /\ last'.ret = FALSE)
        => ( /\ txs'[last'.arg].status = "rejected"
             /\ chain' = chain
             /\ \A i \in 1..Len(chain) : txs'[chain[i]] = txs[chain[i]] ) ]_vars

\* C10: add_transaction returns True exactly when previous_hash is the tail's
\* data_hash (the genesis sentinel on an empty chain) and tx_id and timestamp
\* are non-empty; then the transaction is confirmed and is the new last element.
C10_AddTransaction ==
    [][ last'.op = "add_transaction"
        => LET h == last'.arg
               expected == IF chain = <<>> THEN genesis_hash
                           ELSE txs[chain[Len(chain)]].data_hash
               valid == /\ txs[h].previous_hash = expected
                        /\ txs[h].tx_id # <<>>
                        /\ txs[h].timestamp # <<>>
           IN  /\ last'.ret = valid
               /\ valid => /\ txs'[h].status = "confirmed"
                           /\ Len(chain') = Len(chain) + 1
                           /\ chain' = Append(chain, h) ]_vars

\* a second transaction was accepted after one with an empty tx_id was rejected
C10_Witness ==
    /\ last.op = "add_transaction" /\ last.ret = TRUE
    /\ Len(chain) >= 2
    /\ \E h \in 1..Len(txs) : txs[h].tx_id = <<>> /\ txs[h].status = "rejected"

\* C11: the chain is append-only: in every step of a ledger or facade
\* operation the chain before is a prefix of the chain after (the same
\* objects at the same positions, the length never smaller).
C11_AppendOnly ==
    [][ /\ Len(chain) <= Len(chain')
        /\ SubSeq(chain', 1, Len(chain)) = chain ]_vars

\* a manifest update has appended to a chain of two, after a rejection
C11_Witness ==
    /\ last.op = "update_blockchain_manifest" /\ last.ret = TRUE
    /\ Len(chain) >= 3
    /\ txs[chain[Len(chain)]].operation = "manifest_update"
    /\ \E h \in 1..Len(txs) : txs[h].status = "rejected"

\* C12 as stated: a confirmed and appended transaction is immutable: in every
\* step of create_transaction / add_transaction every element of the chain
\* keeps status confirmed and its tx_id, data_hash, previous_hash and
\* merkle_root (fails when add_transaction is called again on an element of
\* the chain and rejects it).
C12_ConfirmedImmutable ==
    [][ \A i \in 1..Len(chain) :
            /\ txs[chain[i]].status = "confirmed"
            /\ txs'[chain[i]].status = "confirmed"
            /\ txs'[chain[i]].tx_id = txs[chain[i]].tx_id
            /\ txs'[chain[i]].data_hash = txs[chain[i]].data_hash
            /\ txs'[chain[i]].previous_hash = txs[chain[i]].previous_hash
            /\ txs'[chain[i]].merkle_root = txs[chain[i]].merkle_root ]_vars

\* C15 as stated: the merkle_root create_transaction stores for payload p is
\* hash(hash(p) || hash(p)) (fails: the one-element list never enters the
\* pairing loop, and the root is hash(p)).
C15_MerkleSingle ==
    last.op = "create_transaction"
        => LET h == calculate_hash(json_dumps(last.arg))
           IN  txs[last.ret].merkle_root = calculate_hash(h \o h)

\* C18: record_consolidation_event always returns: either the id of a
\* transaction that is now confirmed and is the last element of the chain, or
\* the empty string with the chain and every transaction in it as before.
C18_RecordEvent ==
    [][ last'.op = "record_consolidation_event"
        => \/ /\ last'.ret # <<>>
              /\ Len(chain') = Len(chain) + 1
              /\ SubSeq(chain', 1, Len(chain)) = chain
              /\ txs'[chain'[Len(chain')]].tx_id = last'.ret
              /\ txs'[chain'[Len(chain')]].status = "confirmed"
           \/ /\ last'.ret = <<>>
              /\ chain' = chain
              /\ \A i \in 1..Len(chain) : txs'[chain[i]] = txs[chain[i]] ]_vars

\* an event was recorded on a chain of two, after an add_transaction was rejected
C18_Witness ==
    /\ last.op = "record_consolidation_event" /\ last.ret # <<>>
    /\ Len(chain) >= 3
    /\ txs[chain[Len(chain)]].operation = "consolidation_event"
    /\ \E h \in 1..Len(txs) : txs[h].status = "rejected"

\* C13: verify_consolidation_chain walks the chain in index order: it returns
\* True when every element is linked (an empty chain included), and otherwise
\* returns False and reports, in its log line, the smallest index at which
\* the linkage fails (index 0: the genesis line).
C13_FirstBreak ==
    last.op = "verify_consolidation_chain"
        => LET breaks == { i \in 1..Len(chain) :
                             txs[chain[i]].previous_hash #
                                 (IF i = 1 THEN genesis_hash
                                  ELSE txs[chain[i - 1]].data_hash) }
               reported == IF Len(last.ret.log) = 2 THEN last.ret.log[2] ELSE 0
           IN  IF breaks = {}
               THEN last.ret.ret = TRUE
               ELSE /\ last.ret.ret = FALSE
                    /\ last.ret.log # ChainVerified
                    /\ reported + 1 \in breaks
                    /\ \A i \in breaks : reported + 1 <= i

\* on a chain of three or more, chain[2].previous_hash was overwritten and a
\* break at index 2 was reported
C13_Witness ==
    /\ last.op = "verify_consolidation_chain"
    /\ Len(chain) >= 3
    /\ txs[chain[3]].previous_hash = Forged
    /\ last.ret = [ ret |-> FALSE, log |-> <<"Hash chain broken at transaction", 2>> ]

\* C14 as stated: on a chain built through add_transaction, overwriting the
\* data_hash or the previous_hash of any one element with another value makes
\* verify_consolidation_chain return False (fails for the data_hash of the
\* last element, which no later element links to).
C14_TamperEvident ==
    [][ (last'.op = "corrupt" /\ ForgedFields(txs) = {})
            => ~verify_consolidation_chain(txs', chain') ]_vars

\* C16 as stated: for every stored proof, verify_integrity(proof_id) returns
\* True exactly when that proof is finalized, its before_hash differs from its
\* after_hash and its file list is non-empty; it returns False for a proof id
\* that no proof carries (fails for a proof stored after another one with the
\* same proof_id: the call answers for the first of them).
C16_VerifyIntegrity ==
    last.op = "verify_integrity"
        => /\ \A i \in 1..Len(proofs) :
                  proofs[i].proof_id = last.arg
                      => last.ret = ( /\ proofs[i].verified
                                      /\ proofs[i].before_hash # proofs[i].after_hash
                                      /\ Len(proofs[i].files_affected) > 0 )
           /\ (\A i \in 1..Len(proofs) : proofs[i].proof_id # last.arg)
                  => last.ret = FALSE

\* C17: generate_consolidation_proof appends a proof with finalized (verified)
\* False and empty after_hash; finalize_proof returns True exactly for a proof
\* id that is stored and then the first proof with that id is finalized,
\* whatever its hashes; the flag of a proof changes only in a finalize_proof
\* step and never from True to False.
C17_ProofLifecycle ==
    [][ /\ Len(proofs') >= Len(proofs)
        /\ Len(proofs') > Len(proofs)
              => /\ last'.op = "generate_consolidation_proof"
                 /\ Len(proofs') = Len(proofs) + 1
                 /\ proofs'[Len(proofs')].verified = FALSE
                 /\ proofs'[Len(proofs')].after_hash = <<>>
        /\ last'.op = "finalize_proof"
              => LET known == { i \in 1..Len(proofs) : proofs[i].proof_id = last'.arg }
                 IN  /\ last'.ret = (known # {})
                     /\ known # {}
                           => \E i \in known : /\ \A j \in known : i <= j
                                                /\ proofs'[i].verified = TRUE
        /\ \A i \in 1..Len(proofs) :
              /\ proofs[i].verified => proofs'[i].verified
              /\ proofs'[i].verified # proofs[i].verified => last'.op = "finalize_proof"
      ]_vars

\* a proof over a file that did not change has been finalized
C17_Witness ==
    /\ last.op = "finalize_proof" /\ last.ret = TRUE
    /\ \E i \in 1..Len(proofs) :
            /\ proofs[i].proof_id = last.arg
            /\ proofs[i].verified
            /\ proofs[i].files_affected # <<>>
            /\ proofs[i].after_hash = proofs[i].before_hash

\* C19: in the results of verify_consolidation_integrity (no error field),
\* overall_integrity is the conjunction of blockchain_integrity,
\* temporal_consistency, proof_validity and manifest_accuracy.
C19_OverallIsConjunction ==
    (last.op = "verify_consolidation_integrity" /\ "error" \notin DOMAIN last.ret)
        => last.ret.overall_integrity = ( /\ last.ret.blockchain_integrity
                                          /\ last.ret.temporal_consistency
                                          /\ last.ret.proof_validity
                                          /\ last.ret.manifest_accuracy )

\* a verification has found every proof valid and the chain broken, after an
\* earlier one that was recorded in the ledger
C19_Witness ==
    /\ last.op = "verify_consolidation_integrity"
    /\ proofs # <<>>
    /\ last.ret.proof_validity /\ ~last.ret.blockchain_integrity
    /\ last.ret.temporal_consistency /\ last.ret.manifest_accuracy
    /\ ~last.ret.overall_integrity
    /\ Cardinality({ i \in 1..Len(chain) :
                       txs[chain[i]].operation = "integrity_verification" }) >= 2

\* C20 as stated: proof_validity is True exactly when every stored proof is
\* finalized with before_hash different from after_hash and a non-empty file
\* list, so one proof that is pending or unchanged makes proof_validity and
\* overall_integrity False (fails for a pending proof stored after a finalized
\* one with the same proof_id).
C20_ProofValidity ==
    last.op = "verify_consolidation_integrity"
        => LET holds(i) == /\ proofs[i].verified
                           /\ proofs[i].before_hash # proofs[i].after_hash
                           /\ Len(proofs[i].files_affected) > 0
           IN  /\ last.ret.proof_validity = (\A i \in 1..Len(proofs) : holds(i))
               /\ (\E i \in 1..Len(proofs) :
                        ~proofs[i].verified \/ proofs[i].before_hash = proofs[i].after_hash)
                      => (~last.ret.proof_validity /\ ~last.ret.overall_integrity)

\* C21 as stated: the manifest_accuracy result is True exactly when the
\* chain_length and latest_hash of the last-reported manifest equal the live
\* chain length and tail data_hash, so it is False when the ledger has grown
\* since that manifest was written.  Read in the step in which
\* verify_consolidation_integrity follows an update_blockchain_manifest that
\* wrote its manifest: that manifest was taken from the chain without its
\* present last element, the manifest_update transaction (fails: the code
\* compares a manifest it has just computed with the state it was computed from).
C21_ManifestAccuracy ==
    [][ ( /\ last.op = "update_blockchain_manifest" /\ last.ret = TRUE
          /\ last'.op = "verify_consolidation_integrity" )
        => LET reported == get_manifest(txs, SubSeq(chain, 1, Len(chain) - 1), clock)
           IN  last'.ret.manifest_accuracy =
                   ( /\ Lookup(reported, "chain_length") = Len(chain)
                     /\ Lookup(reported, "latest_hash") = TailHash(txs, chain) ) ]_vars

\* C22: the temporal_consistency result of verify_consolidation_integrity is
\* True exactly when the sequence numbers of the events, sorted ascending, are
\* 1, 2, ..., N: each of 1..N is the sequence number of exactly one of the N
\* events (True for an empty list; False for a gap, a duplicate or a start
\* other than 1).
C22_TemporalConsistency ==
    (last.op = "verify_consolidation_integrity" /\ "error" \notin DOMAIN last.ret)
        => last.ret.temporal_consistency =
               (\A n \in 1..Len(events) :
                    Cardinality({ k \in 1..Len(events) : events[k].sequence = n }) = 1)

\* a verification has returned temporal_consistency False for a list of
\* three events in which no event has sequence number 1 and two share one
C22_Witness ==
    /\ last.op = "verify_consolidation_integrity"
    /\ ~last.ret.temporal_consistency /\ ~last.ret.overall_integrity
    /\ Len(events) = 3
    /\ \A k \in 1..3 : events[k].sequence # 1
    /\ \E j, k \in 1..3 : j # k /\ events[j].sequence = events[k].sequence

C24_ProofStatistics ==
    (last.op = "get_consolidation_report" /\ "error" \notin DOMAIN last.ret)
        => LET stats == last.ret.proof_statistics
               P == 1..Len(proofs)
           IN  /\ stats.total_proofs = Len(proofs)
               /\ stats.verified_proofs =
                      Cardinality({ i \in P : verify_integrity(proofs, proofs[i].proof_id) })
               /\ stats.pending_proofs = Cardinality({ i \in P : ~proofs[i].verified })

\* C25: the manifest embedded in a report has the chain_length and the
\* latest_hash of the ledger at the moment the report is returned (fails: the
\* manifest is taken before the report's own verification is recorded).
C25_ReportManifest ==
    (last.op = "get_consolidation_report" /\ "error" \notin DOMAIN last.ret)
        => LET manifest == last.ret.blockchain_statistics
           IN  /\ Lookup(manifest, "chain_length") = Len(chain)
               /\ Lookup(manifest, "latest_hash") = TailHash(txs, chain)

\* C26 as stated (its safety part): a coordinate_operation call that has
\* returned was either turned away and returned False, or completed and
\* returned True (fails on the error path: the call acquired its locks, an
\* awaited step raised, and it returned False after releasing them).
C26_TwoTerminals ==
    (last.op = "coordinate_operation" /\ last.via # "suspended")
        => \/ last.via = "rejected" /\ last.ret = FALSE
           \/ last.via = "completed" /\ last.ret = TRUE

\* C26 as amended: a call is turned away at once with False and no frame, or
\* it acquires all its locks and suspends, and from there it returns True on
\* completion or False from the except clause, its locks free in both cases;
\* under weak fairness of the resumption every suspended call returns.
C26_StateMachine ==
    /\ [][ /\ (last'.op = "coordinate_operation" /\ last'.via = "rejected")
                => /\ last'.ret = FALSE
                   /\ calls' = calls
           /\ \A c \in Calls :
                /\ (calls[c].pc = "idle" /\ calls'[c].pc = "running")
                    => /\ last'.op = "coordinate_operation" /\ last'.via = "suspended"
                       /\ \A a \in calls'[c].agents :
                            /\ ~IsLocked(coordination_locks, a)
                            /\ IsLocked(coordination_locks', a)
                /\ (calls[c].pc = "running" /\ calls'[c].pc = "idle")
                    => /\ last'.op = "coordinate_operation"
                       /\ \/ last'.via = "completed" /\ last'.ret = TRUE
                          \/ last'.via = "error" /\ last'.ret = FALSE
                       /\ \A a \in calls[c].agents : ~IsLocked(coordination_locks', a)
       ]_<<calls, coordination_locks, last.op, last.via>>
    /\ \A c \in Calls : (calls[c].pc = "running") ~> (calls[c].pc = "idle")

\* one call has returned False from the except clause while another is suspended
C26_Witness ==
    /\ last.op = "coordinate_operation" /\ last.via = "error" /\ last.ret = FALSE
    /\ \E c \in Calls : calls[c].pc = "running"
    /\ \A a \in last.arg : ~IsLocked(coordination_locks, a)

\* C27: a coordinate_operation call that is turned away returns False and
\* leaves the lock table, the event log, the sequence counter and the
\* suspended calls as they were.
C27_RejectedNoEffect ==
    [][ (last'.op = "coordinate_operation" /\ last'.via = "rejected")
            => /\ last'.ret = FALSE
               /\ coordination_locks' = coordination_locks
               /\ events' = events
               /\ sequence_counter' = sequence_counter
               /\ calls' = calls ]_vars

\* {B,C} is held and has logged its start, and a call on {C} was turned away
C27_Witness ==
    /\ last.op = "coordinate_operation" /\ last.via = "rejected" /\ last.arg = {"C"}
    /\ \E c \in Calls : calls[c].pc = "running" /\ calls[c].agents = {"B", "C"}
    /\ Len(events) >= 2 /\ sequence_counter = Len(events)

\* C28: a call of coordinate_operation appends exactly one event when it
\* acquires, the coordination_start of its coordination, and a call that
\* returns True appends exactly one event in its last step, the
\* coordination_complete of its coordination, which follows a
\* coordination_start of that coordination with a smaller sequence number and
\* is appended with none of the call's locks held.
C28_StartThenComplete ==
    [][ \A c \in Calls :
          LET n == Len(events) IN
          /\ (calls[c].pc = "idle" /\ calls'[c].pc = "running"
                    /\ calls'[c].kind = "coordinate")
                => /\ Len(events') = n + 1
                   /\ SubSeq(events', 1, n) = events
                   /\ events'[n + 1].event_type = "coordination_start"
                   /\ events'[n + 1].data.coordination_id = calls'[c].coordination_id
          /\ (calls[c].pc = "running" /\ calls'[c].pc = "idle"
                    /\ last'.op = "coordinate_operation" /\ last'.ret = TRUE)
                => /\ Len(events') = n + 1
                   /\ SubSeq(events', 1, n) = events
                   /\ events'[n + 1].event_type = "coordination_complete"
                   /\ events'[n + 1].data.coordination_id = calls[c].coordination_id
                   /\ \E i \in 1..n :
                        /\ events[i].event_type = "coordination_start"
                        /\ events[i].data.coordination_id = calls[c].coordination_id
                        /\ events[i].sequence < events'[n + 1].sequence
                   /\ \A a \in calls[c].agents : ~IsLocked(coordination_locks', a) ]_vars

\* a call has returned True, and a caller's event lies between its
\* coordination_start and its coordination_complete
C28_Witness ==
    /\ last.op = "coordinate_operation" /\ last.via = "completed" /\ last.ret = TRUE
    /\ \E i, j \in 1..Len(events) :
            /\ i < j /\ j < Len(events)
            /\ events[i].event_type = "coordination_start"
            /\ events[j].agent \in EventAgents
            /\ events[Len(events)].event_type = "coordination_complete"
            /\ events[Len(events)].data.coordination_id = events[i].data.coordination_id

\* C29: get_manifest changes nothing of the ledger, and in the document it
\* returns chain_length is the length of the chain, latest_hash the data_hash
\* of the last element of the chain (the 64 zeros when the chain is empty)
\* and genesis_hash the 64 zeros.
C29_ManifestSnapshot ==
    [][ last'.op = "get_manifest"
            => /\ txs' = txs /\ chain' = chain
               /\ Lookup(last'.ret, "chain_length") = Len(chain)
               /\ Lookup(last'.ret, "latest_hash") =
                      (IF Len(chain) = 0 THEN <<[zeros |-> 64]>>
                       ELSE txs[chain[Len(chain)]].data_hash)
               /\ Lookup(last'.ret, "genesis_hash") = <<[zeros |-> 64]>> ]_<<txs, chain, last.op>>

\* a manifest of a chain of two transactions with different payloads
C29_Witness ==
    /\ last.op = "get_manifest"
    /\ Len(chain) = 2
    /\ txs[chain[1]].data_hash # txs[chain[2]].data_hash
    /\ Lookup(last.ret, "latest_hash") = txs[chain[2]].data_hash

\* C30: create_transaction returns a pending transaction whose previous_hash
\* is the data_hash of the last element of the chain (the 64 zeros when the
\* chain is empty), leaves the chain and the existing transactions as they
\* were, and gives the new transaction the data_hash of every earlier
\* transaction that was created from an equal payload (the same entries, in
\* any insertion order).
C30_CreateTransaction ==
    [][ last'.op = "create_transaction"
            => LET tx == txs'[last'.ret]
                   entries(d) == { d[i] : i \in DOMAIN d }
               IN  /\ Len(txs') = Len(txs) + 1 /\ last'.ret = Len(txs')
                   /\ SubSeq(txs', 1, Len(txs)) = txs
                   /\ chain' = chain
                   /\ tx.status = "pending"
                   /\ tx.previous_hash =
                          (IF Len(chain) = 0 THEN <<[zeros |-> 64]>>
                           ELSE txs[chain[Len(chain)]].data_hash)
                   /\ \A h \in 1..Len(txs) :
                          entries(txs[h].tx_id[1].sha256[3][1].json) = entries(last'.arg)
                              => txs[h].data_hash = tx.data_hash ]_vars

\* a transaction created on a non-empty chain from the payload of the chain's
\* tail with its entries in the other order: another tx_id, the same data_hash
C30_Witness ==
    /\ last.op = "create_transaction"
    /\ chain # <<>>
    /\ last.ret \in 1..Len(txs)
    /\ LET tx == txs[last.ret]
           tail == txs[chain[Len(chain)]]
       IN  /\ chain[Len(chain)] # last.ret
           /\ tx.tx_id # tail.tx_id
           /\ tx.data_hash = tail.data_hash
           /\ tx.previous_hash = tail.data_hash
           /\ tx.status = "pending"

\* C31: get_event_timeline without an agent returns all the events in
\* ascending order of sequence number, and get_event_timeline(agent) returns
\* exactly the events of that agent in the order of the list (fails for the
\* agent "": the call returns the events of every agent).
C31_Timeline ==
    last.op = "get_event_timeline"
        => LET ret == last.ret IN
           IF last.arg = NoAgent
           THEN /\ Len(ret) = Len(events)
                /\ \A e \in { events[i] : i \in 1..Len(events) } :
                        Cardinality({ i \in 1..Len(ret) : ret[i] = e }) =
                        Cardinality({ i \in 1..Len(events) : events[i] = e })
                /\ \A i \in 1..(Len(ret) - 1) : ret[i].sequence <= ret[i + 1].sequence
           ELSE ret = EventsOf(events, last.arg)

\* C32: an agent's lock is held if and only if exactly one call that is
\* between acquisition and release has the agent in its requested set; so
\* with no call in progress every lock is free.
C32_NoOrphanLocks ==
    \A a \in Agents :
        IsLocked(coordination_locks, a)
            <=> Cardinality({ c \in Calls : calls[c].pc = "running"
                                            /\ a \in calls[c].agents }) = 1

\* a call on {A,B} has returned and left its two entries in the table free,
\* while a call on {C} still holds its lock
C32_Witness ==
    /\ last.op = "coordinate_operation" /\ last.via \in {"completed", "error"}
    /\ last.arg = {"A", "B"}
    /\ {"A", "B"} \subseteq DOMAIN coordination_locks
    /\ ~IsLocked(coordination_locks, "A") /\ ~IsLocked(coordination_locks, "B")
    /\ IsLocked(coordination_locks, "C")
    /\ \E c \in Calls : calls[c].pc = "running" /\ calls[c].agents = {"C"}

\* C33: of two transactions that create_transaction made while the chain had
\* the same tail, at most one is ever appended to the chain (fails when the
\* first one appended carries the payload of the tail it was created on: its
\* data_hash is then the previous_hash the second one waits for).
C33_NoFork ==
    \A h1, h2 \in 1..Len(txs) :
        (h1 # h2 /\ txs[h1].previous_hash = txs[h2].previous_hash)
            => ~ ( /\ \E i \in 1..Len(chain) : chain[i] = h1
                   /\ \E i \in 1..Len(chain) : chain[i] = h2 )

\* C34 as stated: among concurrent callers of the facade, every
\* record_consolidation_event call appends exactly one confirmed transaction
\* and does not return the empty string (fails for event data that cannot be
\* serialized: the except clause returns the empty string, nothing appended).
C34_AlwaysRecorded ==
    [][ last'.op = "record_consolidation_event"
            => /\ last'.ret # <<>>
               /\ Len(chain') = Len(chain) + 1 ]_<<txs, chain, last.op>>

\* C34 as amended: among concurrent callers of the facade, every
\* record_consolidation_event call whose event data can be serialized appends
\* exactly one transaction, confirmed, and returns its id, so add_transaction
\* never rejects it; a call returns the empty string only from the except
\* clause, with nothing appended.
C34_RecordedUnlessError ==
    [][ last'.op = "record_consolidation_event"
            => IF Serializable(last'.arg)
               THEN /\ Len(chain') = Len(chain) + 1
                    /\ SubSeq(chain', 1, Len(chain)) = chain
                    /\ chain'[Len(chain')] = Len(txs')
                    /\ Len(txs') = Len(txs) + 1
                    /\ txs'[Len(txs')].status = "confirmed"
                    /\ txs'[Len(txs')].operation = "consolidation_event"
                    /\ last'.ret # <<>>
                    /\ last'.ret = txs'[Len(txs')].tx_id
               ELSE /\ last'.ret = <<>>
                    /\ chain' = chain
                    /\ txs' = txs ]_<<txs, chain, last.op>>

\* an event was recorded while a phase is suspended in its coordination, on a
\* chain that already holds another caller's transaction
C34_Witness ==
    /\ last.op = "record_consolidation_event" /\ last.ret # <<>>
    /\ \E c \in Calls : calls[c].pc = "running" /\ calls[c].kind = "phase"
    /\ Len(chain) >= 2
    /\ txs[chain[Len(chain) - 1]].operation \in {"manifest_update", "integrity_verification"}
    /\ txs[chain[Len(chain)]].tx_id = last.ret

\* C35: a verify_consolidation_integrity call that returns without an error
\* field appends exactly one transaction, confirmed and of operation
\* integrity_verification, leaves the event list, the sequence counter, the
\* lock table, the suspended calls and the proofs as they were, and returns
\* the four checks as they evaluate on the ledger before the append.
C35_VerifyFrame ==
    [][ (last'.op = "verify_consolidation_integrity" /\ "error" \notin DOMAIN last'.ret)
            => /\ Len(chain') = Len(chain) + 1
               /\ SubSeq(chain', 1, Len(chain)) = chain
               /\ \A i \in 1..Len(chain) : txs'[chain[i]] = txs[chain[i]]
               /\ txs'[chain'[Len(chain')]].status = "confirmed"
               /\ txs'[chain'[Len(chain')]].operation = "integrity_verification"
               /\ events' = events
               /\ sequence_counter' = sequence_counter
               /\ coordination_locks' = coordination_locks
               /\ calls' = calls
               /\ proofs' = proofs
               /\ last'.ret.blockchain_integrity = verify_consolidation_chain(txs, chain)
               /\ last'.ret.temporal_consistency = verify_temporal_consistency(events)
               /\ last'.ret.proof_validity = verify_all_proofs(proofs)
               /\ last'.ret.manifest_accuracy = verify_manifest_accuracy(txs, chain, clock)
       ]_<<txs, chain, last.op>>

\* a verification has returned and is recorded as the last element of the
\* chain, while a phase is suspended holding its locks
C35_Witness ==
    /\ last.op = "verify_consolidation_integrity" /\ "error" \notin DOMAIN last.ret
    /\ Len(chain) >= 2
    /\ txs[chain[Len(chain)]].operation = "integrity_verification"
    /\ \E c \in Calls : calls[c].pc = "running"
    /\ \E a \in Agents : IsLocked(coordination_locks, a)
    /\ Len(events) >= 2

C37_ProofFrame ==
    [][ /\ last'.op = "finalize_proof"
            => LET known == { i \in 1..Len(proofs) : proofs[i].proof_id = last'.arg }
               IN  /\ Len(proofs') = Len(proofs)
                   /\ txs' = txs /\ chain' = chain
                   /\ IF known = {}
                      THEN last'.ret = FALSE /\ proofs' = proofs
                      ELSE /\ last'.ret = TRUE
                           /\ \E i \in known :
                                /\ \A j \in known : i <= j
                                /\ \A j \in 1..Len(proofs) : j # i => proofs'[j] = proofs[j]
                                /\ proofs' = [proofs EXCEPT
                                                ![i].after_hash = proofs'[i].after_hash,
                                                ![i].verified = proofs'[i].verified]
        /\ last'.op = "verify_integrity"
            => proofs' = proofs /\ txs' = txs /\ chain' = chain
        /\ \A i \in 1..Len(proofs) :
              /\ i <= Len(proofs')
              /\ proofs'[i].proof_id = proofs[i].proof_id
              /\ proofs'[i].operation = proofs[i].operation
              /\ proofs'[i].files_affected = proofs[i].files_affected
              /\ proofs'[i].before_hash = proofs[i].before_hash
      ]_<<proofs, last.op>>

\* of two stored proofs with one id, finalize_proof has finalized the first
\* and left the second as it was generated
C37_Witness ==
    /\ last.op = "finalize_proof" /\ last.ret = TRUE
    /\ Len(proofs) = 2
    /\ proofs[1].proof_id = last.arg /\ proofs[2].proof_id = last.arg
    /\ proofs[1].verified /\ proofs[1].after_hash # <<>>
    /\ ~proofs[2].verified /\ proofs[2].after_hash = <<>>

\* the positions of the chain that hold a transaction with operation genesis
GenesisAt(heap, ch) == { i \in 1..Len(ch) : heap[ch[i]].operation = "genesis" }

\* C38 as stated: after an initialize call the chain is non-empty, holds at
\* most one genesis transaction, which is its first element, and the first
\* element's previous_hash is the genesis sentinel (fails when initialize
\* returns False on an empty chain).
C38_GenesisAfterInitialize ==
    last.op = "initialize"
        => /\ Len(chain) > 0
           /\ Cardinality(GenesisAt(txs, chain)) <= 1
           /\ GenesisAt(txs, chain) \subseteq {1}
           /\ txs[chain[1]].previous_hash = genesis_hash

\* C38, amended: a step of initialize puts a genesis transaction on the chain
\* only when the chain was empty, and then as its only element; after an
\* initialize that returns True the chain is non-empty; and in every state
\* the chain holds at most one genesis transaction, at its first position,
\* and the first element of a non-empty chain has previous_hash equal to the
\* genesis sentinel.
C38_GenesisOnce ==
    [][ /\ last'.op = "initialize"
            => /\ GenesisAt(txs', chain') # GenesisAt(txs, chain)
                    => /\ Len(chain) = 0
                       /\ Len(chain') = 1
               /\ last'.ret = TRUE => Len(chain') > 0
               /\ last'.ret = FALSE => chain' = chain /\ txs' = txs
        /\ Cardinality(GenesisAt(txs', chain')) <= 1
        /\ GenesisAt(txs', chain') \subseteq {1}
        /\ Len(chain') > 0 => txs'[chain'[1]].previous_hash = genesis_hash
      ]_<<txs, chain, last.op>>

\* initialize has returned True on a chain that already began with the
\* genesis transaction and had grown since, and has not created another
C38_Witness ==
    /\ last.op = "initialize" /\ last.ret = TRUE
    /\ Len(chain) >= 2
    /\ GenesisAt(txs, chain) = {1}
    /\ txs[chain[1]].previous_hash = genesis_hash

\* C39: in every report returned without an error entry, the verified and
\* the pending proofs add up to the total number of proofs, and
\* temporal_events is the number of registered events.
C39_ReportPartition ==
    (last.op = "get_consolidation_report" /\ "error" \notin DOMAIN last.ret)
        => /\ last.ret.proof_statistics.total_proofs =
                  last.ret.proof_statistics.verified_proofs
                    + last.ret.proof_statistics.pending_proofs
           /\ last.ret.temporal_events = Len(events)

\* a report over a finalized proof, a proof not yet finalized and at least
\* one registered event
C39_Witness ==
    /\ last.op = "get_consolidation_report" /\ "error" \notin DOMAIN last.ret
    /\ last.ret.proof_statistics.verified_proofs >= 1
    /\ last.ret.proof_statistics.pending_proofs >= 1
    /\ last.ret.temporal_events >= 1
    /\ \E i, j \in 1..Len(proofs) : proofs[i].verified /\ ~proofs[j].verified

====
